---- MODULE Spec2Model ----
(***************************************************************************)
(* Invoice issuance of atechloapisunat: the document_sequences counter,    *)
(* the createInvoice transaction, getNextNumber and the handlers that      *)
(* touch sequences, invoices and products.  A request in flight holds a    *)
(* slot; every await of a handler is a step, so requests interleave at the *)
(* database round-trips, as they do on the Node event loop, and every      *)
(* await can reject.                                                       *)
(* The store is MySQL/InnoDB at its default isolation level: reads inside  *)
(* a transaction are snapshot reads without locks, writes of a transaction *)
(* become durable at commit, an UPDATE holds the row lock until commit, an *)
(* INSERT checks the unique indexes against committed rows and waits for   *)
(* an uncommitted row with the same key.                                   *)
(***************************************************************************)
EXTENDS Integers, Sequences, FiniteSets, TLC

\* Number of HTTP requests of one behaviour.
MaxReq == 3
\* Number of requests in flight at once, of the ten connections the pool
\* admits; a slot is taken again once its request has ended.
MaxConc == 3
Slots == 1 .. MaxConc

VARIABLES
  document_sequences,  \* table document_sequences: set of rows
  invoices,            \* table invoices: rows in commit order
  invoice_items,       \* table invoice_items: set of rows
  products,            \* table products: set of rows
  last_invoice_id,     \* AUTO_INCREMENT counter of invoices.id
  last_product_id,     \* AUTO_INCREMENT counter of products.id
  started,             \* number of requests received so far
  frames,              \* per slot: the handler invocation of the request in flight
  ended,               \* the request that ended in the last step, if one did
  seq_writes           \* log of the durable writes of current_number

db == <<document_sequences, invoices, invoice_items, products, last_invoice_id,
        last_product_id>>
vars == <<document_sequences, invoices, invoice_items, products, last_invoice_id,
          last_product_id,
          started, frames, ended, seq_writes>>

the(S) == CHOOSE x \in S : TRUE

SeqToSet(s) == {s[i] : i \in 1 .. Len(s)}

(***************************************************************************)
(* Tables                                                                  *)
(***************************************************************************)

\* user_companies: (user_id, company_id) -> role.  User 3 has no membership.
user_companies ==
  { [user_id |-> 1, company_id |-> 1, role |-> "owner"],
    [user_id |-> 2, company_id |-> 1, role |-> "sales"],
    [user_id |-> 4, company_id |-> 2, role |-> "owner"] }

\* A lookup that finds a membership for every user.
UserCompanyFindAny(user_id, company_id, roles) == user_companies

\* UserCompany.findOne({ where: { user_id, company_id, role: roles } })
UserCompanyFindOne(user_id, company_id, roles) ==
  {uc \in user_companies :
      uc.user_id = user_id /\ uc.company_id = company_id /\ uc.role \in roles}

AllRoles == {"owner", "admin", "accountant", "sales"}

\* A row of document_sequences with the model's column defaults.
SequenceRow(company_id, document_type, series, current_number, prefix, suffix, min_digits, is_active) ==
  [company_id |-> company_id, document_type |-> document_type, series |-> series,
   current_number |-> current_number, prefix |-> prefix, suffix |-> suffix,
   min_digits |-> min_digits, is_active |-> is_active]

\* The composite key of the unique index unique_company_series.
SeqKey(row) == <<row.company_id, row.document_type, row.series>>

\* A findOne that does not ask for is_active.
SequenceFindAny(rows, company_id, document_type, series) ==
  {s \in rows : /\ s.company_id = company_id
                /\ s.document_type = document_type
                /\ s.series = series}

\* A lookup that makes up a sequence at 0 when the key has none.
SequenceFindOrNew(rows, company_id, document_type, series) ==
  IF SequenceFindAny(rows, company_id, document_type, series) = {}
    THEN {SequenceRow(company_id, document_type, series, 0, "", "", 8, TRUE)}
    ELSE {s \in SequenceFindAny(rows, company_id, document_type, series) : s.is_active}

\* DocumentSequence.findOne({ where: { company_id, document_type, series, is_active: true } })
SequenceFindOne(rows, company_id, document_type, series) ==
  {s \in rows : /\ s.company_id = company_id
                /\ s.document_type = document_type
                /\ s.series = series
                /\ s.is_active}

\* An UPDATE that matches the rows by series alone.
SequenceSetSeries(rows, key, n) ==
  {IF s.series = key[3] THEN [s EXCEPT !.current_number = n] ELSE s : s \in rows}

\* UPDATE document_sequences SET current_number = n WHERE <row of key>
SequenceSet(rows, key, n) ==
  {IF SeqKey(s) = key THEN [s EXCEPT !.current_number = n] ELSE s : s \in rows}

\* Product.findByPk(id): the primary key alone, no company scope.
ProductFindByPk(rows, id) == {p \in rows : p.id = id}

\* Product.findOne({ where: { id, company_id } })
ProductFindOne(rows, id, company_id) ==
  {p \in rows : p.id = id /\ p.company_id = company_id}

\* Invoice.findOne({ where: { id, company_id } })
InvoiceFindOne(rows, id, company_id) ==
  {inv \in SeqToSet(rows) : inv.id = id /\ inv.company_id = company_id}

(***************************************************************************)
(* Number formatting                                                       *)
(***************************************************************************)

RECURSIVE padEnd(_, _, _)
\* String.prototype.padEnd: the pad goes after the string.
padEnd(s, targetLength, padString) ==
  IF Len(s) >= targetLength THEN s
  ELSE padEnd(s \o padString, targetLength, padString)

RECURSIVE padStart(_, _, _)
\* String.prototype.padStart(targetLength, padString) for a one-character pad.
padStart(s, targetLength, padString) ==
  IF Len(s) >= targetLength THEN s
  ELSE padStart(padString \o s, targetLength, padString)

\* `${prefix}${series}-${correlative.toString().padStart(min_digits, '0')}${suffix}`
FormatNumber(prefix, series, correlative, min_digits, suffix) ==
  prefix \o series \o "-" \o padStart(ToString(correlative), min_digits, "0") \o suffix
(***************************************************************************)
(* JavaScript numbers                                                      *)
(***************************************************************************)

\* The amounts of the handler are JavaScript numbers: IEEE 754 doubles with a
\* significand of 53 bits, every operation rounded to nearest, ties to even.
\* A whole number of any size is kept as its digits in base 2^15, lowest
\* digit first, without leading zero digits.
LimbBase == 32768

\* The bits of the significand of a double.
SignificandBits == 53

RECURSIVE BigOf(_)
\* The digits of the whole number n >= 0.
BigOf(n) == IF n = 0 THEN <<>> ELSE <<n % LimbBase>> \o BigOf(n \div LimbBase)

RECURSIVE BigValue(_)
\* The whole number of the digits a (below 2^31).
BigValue(a) == IF a = <<>> THEN 0 ELSE a[1] + LimbBase * BigValue(Tail(a))

RECURSIVE BigTrim(_)
\* The digits a without leading zero digits.
BigTrim(a) ==
  IF a = <<>> THEN a
  ELSE IF a[Len(a)] = 0 THEN BigTrim(SubSeq(a, 1, Len(a) - 1))
  ELSE a

RECURSIVE BigAddCarry(_, _, _)
\* a + b + c for a carry c of 0 or 1.
BigAddCarry(a, b, c) ==
  IF a = <<>> /\ b = <<>> THEN (IF c = 0 THEN <<>> ELSE <<c>>)
  ELSE LET x == IF a = <<>> THEN 0 ELSE a[1]
           y == IF b = <<>> THEN 0 ELSE b[1]
           ta == IF a = <<>> THEN a ELSE Tail(a)
           tb == IF b = <<>> THEN b ELSE Tail(b)
       IN <<(x + y + c) % LimbBase>> \o BigAddCarry(ta, tb, (x + y + c) \div LimbBase)

RECURSIVE BigSubBorrow(_, _, _)
\* a - b - c for a >= b + c and a borrow c of 0 or 1 (leading zeros kept).
BigSubBorrow(a, b, c) ==
  IF a = <<>> THEN <<>>
  ELSE LET y == (IF b = <<>> THEN 0 ELSE b[1]) + c
           tb == IF b = <<>> THEN b ELSE Tail(b)
       IN IF a[1] >= y
            THEN <<a[1] - y>> \o BigSubBorrow(Tail(a), tb, 0)
            ELSE <<a[1] + LimbBase - y>> \o BigSubBorrow(Tail(a), tb, 1)

RECURSIVE BigMulSmallCarry(_, _, _)
\* a * k + c for 0 <= k <= 2^15 and a carry c below 2^15.
BigMulSmallCarry(a, k, c) ==
  IF a = <<>> THEN BigOf(c)
  ELSE <<(a[1] * k + c) % LimbBase>>
         \o BigMulSmallCarry(Tail(a), k, (a[1] * k + c) \div LimbBase)

\* a * k for 0 <= k <= 2^15
BigMulSmall(a, k) == BigTrim(BigMulSmallCarry(a, k, 0))

RECURSIVE BigMul(_, _)
\* a * b
BigMul(a, b) ==
  IF a = <<>> \/ b = <<>> THEN <<>>
  ELSE BigAddCarry(BigMulSmall(a, b[1]), BigTrim(<<0>> \o BigMul(a, Tail(b))), 0)

RECURSIVE BigDivSmallFrom(_, _, _, _)
\* The quotient and the remainder of a by k for 0 < k <= 2^15, from the
\* highest digit down: r is the remainder and q the quotient digits of the
\* digits already divided.
BigDivSmallFrom(a, k, r, q) ==
  IF a = <<>> THEN [q |-> BigTrim(q), r |-> r]
  ELSE BigDivSmallFrom(SubSeq(a, 1, Len(a) - 1), k,
                       (r * LimbBase + a[Len(a)]) % k,
                       <<(r * LimbBase + a[Len(a)]) \div k>> \o q)

\* The quotient and the remainder of a by k, 0 < k <= 2^15.
BigDivSmall(a, k) == BigDivSmallFrom(a, k, 0, <<>>)

RECURSIVE BigCmpFrom(_, _, _)
\* The order of two numbers of the same length, from digit i down.
BigCmpFrom(a, b, i) ==
  IF i = 0 THEN 0
  ELSE IF a[i] > b[i] THEN 1
  ELSE IF a[i] < b[i] THEN 0 - 1
  ELSE BigCmpFrom(a, b, i - 1)

\* -1, 0 or 1 as a is below, equal to or above b.
BigCmp(a, b) ==
  IF Len(a) > Len(b) THEN 1
  ELSE IF Len(a) < Len(b) THEN 0 - 1
  ELSE BigCmpFrom(a, b, Len(a))

RECURSIVE BitsOf(_)
\* The number of bits of the whole number n >= 0.
BitsOf(n) == IF n = 0 THEN 0 ELSE 1 + BitsOf(n \div 2)

\* The number of bits of a.
BigBits(a) == IF a = <<>> THEN 0 ELSE 15 * (Len(a) - 1) + BitsOf(a[Len(a)])

RECURSIVE BigZeros(_)
\* k zero digits.
BigZeros(k) == IF k = 0 THEN <<>> ELSE <<0>> \o BigZeros(k - 1)

\* a * 2^k
BigShl(a, k) ==
  IF a = <<>> THEN a
  ELSE BigZeros(k \div 15) \o BigMulSmall(a, 2 ^ (k % 15))

\* floor(a / 2^k)
BigShr(a, k) ==
  IF Len(a) <= k \div 15 THEN <<>>
  ELSE BigDivSmall(SubSeq(a, k \div 15 + 1, Len(a)), 2 ^ (k % 15)).q

\* The double 0.
Zero == [neg |-> FALSE, m |-> <<>>, e |-> 0]

\* The double of the significand m, of 53 or 54 bits, and the exponent e.
RoundCarry(neg, m, e) ==
  IF BigBits(m) > SignificandBits
    THEN [neg |-> neg, m |-> BigShr(m, 1), e |-> e + 1]
    ELSE [neg |-> neg, m |-> m, e |-> e]

\* The quotient q rounded by the order `rest` of the dropped bits against one
\* half: up above the half, to even on the half.
RoundHalfEven(neg, q, rest, e) ==
  RoundCarry(neg,
             IF rest > 0 \/ (rest = 0 /\ q[1] % 2 = 1)
               THEN BigAddCarry(q, <<>>, 1) ELSE q,
             e)

\* n * 2^e rounded from its first 53 bits q, k bits being dropped.
RoundDropped(neg, n, e, k, q) ==
  RoundHalfEven(neg, q,
                BigCmp(BigTrim(BigSubBorrow(n, BigShl(q, k), 0)), BigShl(<<1>>, k - 1)),
                e + k)

\* n * 2^e rounded to 53 bits, n having 53 + k bits.
RoundBits(neg, n, e, k) ==
  IF k <= 0 THEN [neg |-> neg, m |-> BigShl(n, 0 - k), e |-> e + k]
  ELSE RoundDropped(neg, n, e, k, BigShr(n, k))

\* The double nearest to n * 2^e (ties to even), with the sign `neg`: a
\* significand m of exactly 53 bits and the exponent of its lowest bit.
RoundToDouble(neg, n, e) ==
  IF n = <<>> THEN Zero ELSE RoundBits(neg, n, e, BigBits(n) - SignificandBits)

\* The double of a whole number.
NumberOf(n) == RoundToDouble(n < 0, BigOf(IF n < 0 THEN 0 - n ELSE n), 0)

\* x * y
Times(x, y) == RoundToDouble(x.neg # y.neg, BigMul(x.m, y.m), x.e + y.e)

\* x / d for a whole number 0 < d <= 2^15: the quotient of the significand
\* carried to 63 bits or more, its remainder kept as one sticky bit.
DividedBy(x, d) ==
  RoundToDouble(x.neg,
                BigAddCarry(BigShl(BigDivSmall(BigShl(x.m, 17), d).q, 1), <<>>,
                            IF BigDivSmall(BigShl(x.m, 17), d).r = 0 THEN 0 ELSE 1),
                x.e - 18)

\* The sum of the significands a and b of the signs xneg and yneg, both at
\* the exponent e.
PlusAligned(xneg, a, yneg, b, e) ==
  IF xneg = yneg THEN RoundToDouble(xneg, BigAddCarry(a, b, 0), e)
  ELSE IF BigCmp(a, b) >= 0
    THEN RoundToDouble(xneg, BigTrim(BigSubBorrow(a, b, 0)), e)
  ELSE RoundToDouble(yneg, BigTrim(BigSubBorrow(b, a, 0)), e)

\* x + y: both significands are brought to the lower of the two exponents
\* (a zero has no sign here: -0 and 0 are stored, compared and printed alike).
Plus(x, y) ==
  IF x.m = <<>> THEN (IF y.m = <<>> THEN Zero ELSE y)
  ELSE IF y.m = <<>> THEN x
  ELSE PlusAligned(x.neg, BigShl(x.m, IF x.e < y.e THEN 0 ELSE x.e - y.e),
                   y.neg, BigShl(y.m, IF x.e < y.e THEN y.e - x.e ELSE 0),
                   IF x.e < y.e THEN x.e ELSE y.e)

\* parseFloat of a decimal with two decimals, given in hundredths, and the
\* number a JSON body holds for it: the double nearest to c / 100.
ParseFloat2(c) == DividedBy(NumberOf(c), 100)

\* |x| >= |y| for two doubles.
AtLeast(x, y) ==
  IF y.m = <<>> THEN TRUE
  ELSE IF x.m = <<>> THEN FALSE
  ELSE IF x.e # y.e THEN x.e > y.e
  ELSE BigCmp(x.m, y.m) >= 0

\* floor(|x| * 100) for |x| below 2^31 / 100.
Hundredths(x) ==
  IF x.m = <<>> THEN 0
  ELSE IF x.e >= 0 THEN BigValue(BigShl(BigMulSmall(x.m, 100), x.e))
  ELSE BigValue(BigShr(BigMulSmall(x.m, 100), 0 - x.e))

\* A number stored in a DECIMAL(12,2) column, in hundredths: the statement
\* carries the shortest decimal that reads back as the double, and MySQL
\* rounds that decimal to two places, half away from zero.  The decimal is at
\* or beyond the midpoint of two hundredths exactly when the double is at or
\* beyond the double nearest to the midpoint.
Decimal2(x) ==
  (IF x.neg THEN 0 - 1 ELSE 1)
    * (IF AtLeast(x, DividedBy(NumberOf(2 * Hundredths(x) + 1), 200))
         THEN Hundredths(x) + 1 ELSE Hundredths(x))

(***************************************************************************)
(* Requests                                                                *)
(***************************************************************************)

\* req.user.id, req.params and req.body of a request; a missing field of the
\* body is the falsy value of its type.  `productData` is the body of a
\* product request (updateData in updateProduct): a record of the columns it
\* names, and of no other.
BaseReq ==
  [user_id |-> 1, company_id |-> 1, id |-> 0, customer_id |-> 1,
   document_type |-> "invoice", series |-> "F001", issue_date |-> "2024-01-15",
   items |-> <<>>, current_number |-> 0, prefix |-> "", suffix |-> "",
   min_digits |-> 8, productData |-> [igv_rate |-> 18]]

\* An element of req.body.items: quantity a whole number, unit_price in
\* hundredths, discount_rate in whole percents (0 when the field is missing).
LineItem(product_id, quantity, unit_price, discount_rate) ==
  [product_id |-> product_id, quantity |-> quantity, unit_price |-> unit_price,
   discount_rate |-> discount_rate]

\* One unit of a product at 10.00, no discount.
Item(product_id) == LineItem(product_id, 1, 1000, 0)

\* A transaction: `state` is none, active, commit or rollback (the `finished`
\* of the Sequelize transaction, set when commit() or rollback() is called);
\* `snapshot` is the table products as the first read of the transaction
\* found it; the rest are its uncommitted writes.
NoTx ==
  [state |-> "none", snapshot |-> {}, invoices |-> {}, items |-> {}, sequences |-> {}]

\* The response of a handler (status 0: no response was sent), the `data` of
\* a created invoice, and the error its catch block logged.
NoRes ==
  [status |-> 0, next_number |-> 0, formatted_number |-> "", data |-> [invoice |-> {}, items |-> {}],
   error |-> ""]

\* let subtotal = 0; let tax_amount = 0; let discount_amount = 0
NoTotals == [subtotal |-> Zero, tax_amount |-> Zero, discount_amount |-> Zero]

\* A handler invocation: the request, the await it is at, its transaction,
\* its locals `sequence`, `processedItems`, the running totals, `invoice`
\* ({} or <<>> when unset; `invoice` is the row Invoice.create returned,
\* `found` the invoice or the product a findOne returned), the status of the
\* response that follows the rollback it awaits (`reply`), and its response.
IdleFrame ==
  [op |-> "idle", pc |-> "idle", req |-> BaseReq, tx |-> NoTx,
   sequence |-> {}, processedItems |-> <<>>, totals |-> NoTotals, invoice |-> {},
   found |-> {}, reply |-> 0, res |-> NoRes]

\* The handler `name` called with `input`, at its first await.
NewFrame(name, input, pc) == [IdleFrame EXCEPT !.op = name, !.req = input, !.pc = pc]

\* A transaction after its rollback: the writes are discarded.
RolledBack == [NoTx EXCEPT !.state = "rollback"]

\* The handler returns: the transaction is left as t and the response (if
\* any) has the given status.
Finish(f, t, status) ==
  [f EXCEPT !.pc = "done", !.tx = t, !.res = [NoRes EXCEPT !.status = status],
            !.sequence = {}, !.processedItems = <<>>, !.totals = NoTotals,
            !.found = {}, !.reply = 0]

\* The request of slot r goes on as frame f.
Step(r, f) ==
  /\ frames' = [frames EXCEPT ![r] = f]
  /\ ended' = IdleFrame

\* The request of slot r ends as frame f and gives up its slot.
End(r, f) ==
  /\ frames' = [frames EXCEPT ![r] = IdleFrame]
  /\ ended' = f

\* A request arrives and takes the lowest free slot: the handler runs to its
\* first await.
Start(r, f) ==
  /\ started < MaxReq
  /\ frames[r].pc = "idle"
  /\ \A q \in Slots : q < r => frames[q].pc # "idle"
  /\ started' = started + 1
  /\ Step(r, f)
  /\ UNCHANGED <<db, seq_writes>>

\* An await of a handler whose catch block awaits nothing rejects: the error
\* is logged and a 500 is sent.
Throw500(r, name, pcs) ==
  /\ frames[r].op = name /\ frames[r].pc \in pcs
  /\ End(r, [Finish(frames[r], NoTx, 500) EXCEPT !.res.error = "Error"])
  /\ UNCHANGED <<db, started, seq_writes>>

(***************************************************************************)
(* createInvoice                                                           *)
(***************************************************************************)

\* Bodies for the sequence invoice/F001: a unit of product 1 and one of
\* product 2, and a unit of product 9, which does not exist.
CreateInvoiceInputs ==
  { [BaseReq EXCEPT !.items = <<Item(1), Item(2)>>],
    [BaseReq EXCEPT !.items = <<Item(9)>>] }

\* const correlative = sequence.current_number + 1
correlative(f) == the(f.sequence).current_number + 1

\* const invoice_number = `${sequence.prefix}${series}-${...}${sequence.suffix}`
invoice_number(f) ==
  FormatNumber(the(f.sequence).prefix, f.req.series, correlative(f),
               the(f.sequence).min_digits, the(f.sequence).suffix)

\* await transaction.rollback(); return res.status(status): rollback() marks
\* the transaction finished and the handler awaits the statement.
Rollback(f, status) ==
  [f EXCEPT !.tx.state = "rollback", !.reply = status, !.pc = "rollback"]

\* An await of the try block has rejected with `error`: the catch block calls
\* transaction.rollback() and awaits it; rollback() of a transaction that is
\* already finished throws instead, and nothing is logged or sent.
Catch(f, error) ==
  IF f.tx.state = "active"
    THEN [f EXCEPT !.tx.state = "rollback", !.res.error = error, !.pc = "catch"]
    ELSE Finish(f, [NoTx EXCEPT !.state = f.tx.state], 0)

\* A handler without the validation of the body.
NoValidation(input) == FALSE

\* !customer_id || !document_type || !series || !issue_date || !items ||
\* items.length === 0, a missing field being the falsy value of its type.
MissingField(input) ==
  \/ input.customer_id = 0 \/ input.document_type = ""
  \/ input.series = "" \/ input.issue_date = "" \/ Len(input.items) = 0

\* The handler is entered and calls sequelize.transaction().
createInvoice_begin(r, input) ==
  Start(r, NewFrame("createInvoice", input, "transaction"))

\* sequelize.transaction() resolves; UserCompany.findOne is called.
createInvoice_transaction(r) ==
  LET f == frames[r]
  IN /\ f.op = "createInvoice" /\ f.pc = "transaction"
     /\ Step(r, [f EXCEPT !.tx.state = "active", !.pc = "findUserCompany"])
     /\ UNCHANGED <<db, started, seq_writes>>

\* UserCompany.findOne resolves: the permission check and the validation of
\* the body, each of which rolls back before its response.
createInvoice_findUserCompany(r) ==
  LET f == frames[r]
  IN /\ f.op = "createInvoice" /\ f.pc = "findUserCompany"
     /\ IF UserCompanyFindOne(f.req.user_id, f.req.company_id,
                              {"owner", "admin", "accountant", "sales"}) = {}
          THEN Step(r, Rollback(f, 403))
        ELSE IF MissingField(f.req)
          THEN Step(r, Rollback(f, 400))
        ELSE Step(r, [f EXCEPT !.pc = "findSequence"])
     /\ UNCHANGED <<db, started, seq_writes>>

\* The rollback before a 403 or 400 resolves and the response is sent.
createInvoice_rollback(r) ==
  LET f == frames[r]
  IN /\ f.op = "createInvoice" /\ f.pc = "rollback"
     /\ End(r, Finish(f, RolledBack, f.reply))
     /\ UNCHANGED <<db, started, seq_writes>>

\* The NULL of the column products.igv_rate (a DECIMAL(5,2) holds no such
\* number).
Null == 0 - 1000

\* product.igv_rate || 18 if the column were read as a number: 0 is falsy.
TaxRateOfNumber(product) ==
  IF product.igv_rate = Null \/ product.igv_rate = 0 THEN 18 ELSE product.igv_rate

\* parseFloat(product.igv_rate || 18), in whole percents: the DECIMAL column
\* is read as a string ("0.00" for a rate of 0), which is truthy unless the
\* column is NULL.
TaxRate(product) == IF product.igv_rate = Null THEN 18 ELSE product.igv_rate

\* const item_subtotal = quantity * unit_price
item_subtotal(quantity, unit_price) == Times(quantity, unit_price)

\* const item_discount = item_subtotal * (discount_rate / 100)
item_discount(subtotal, discount_rate) == Times(subtotal, DividedBy(discount_rate, 100))

\* const item_base = item_subtotal - item_discount
item_base(subtotal, discount) == Plus(subtotal, [discount EXCEPT !.neg = ~discount.neg])

\* const item_tax = item_base * (tax_rate / 100)
item_tax(base, tax_rate) == Times(base, DividedBy(tax_rate, 100))

\* const item_total = item_base + item_tax
item_total(base, tax) == Plus(base, tax)

\* processedItems.push({...}) from item_base on: quantity, unit_price and
\* the rates are kept as the request and the product give them, the amounts
\* are doubles (discount: the item_discount added to the discount_amount of
\* the invoice).
ItemOfBase(item, tax_rate, discount, base) ==
  [product_id |-> item.product_id, quantity |-> item.quantity,
   unit_price |-> item.unit_price, discount_rate |-> item.discount_rate,
   tax_rate |-> tax_rate,
   subtotal |-> base,
   tax_amount |-> item_tax(base, NumberOf(tax_rate)),
   total_amount |-> item_total(base, item_tax(base, NumberOf(tax_rate))),
   discount |-> discount]

\* The element from item_subtotal on.
ItemOfSubtotal(item, tax_rate, subtotal) ==
  ItemOfBase(item, tax_rate,
             item_discount(subtotal, NumberOf(item.discount_rate)),
             item_base(subtotal, item_discount(subtotal, NumberOf(item.discount_rate))))

\* One element of processedItems, from the parseFloat of the quantity, the
\* unit price and the rates.
ProcessedItem(item, product) ==
  ItemOfSubtotal(item, TaxRate(product),
                 item_subtotal(NumberOf(item.quantity), ParseFloat2(item.unit_price)))

\* subtotal += item_base; tax_amount += item_tax; discount_amount +=
\* item_discount
AddItem(totals, item) ==
  [subtotal |-> Plus(totals.subtotal, item.subtotal),
   tax_amount |-> Plus(totals.tax_amount, item.tax_amount),
   discount_amount |-> Plus(totals.discount_amount, item.discount)]

\* DocumentSequence.findOne(..., { transaction }) resolves: the first read of
\* the transaction, a snapshot read that takes no lock.  Without a sequence
\* the handler rolls back for a 400; with one, the loop over items calls its
\* first Product.findByPk.
createInvoice_findSequence(r) ==
  LET f == frames[r]
      found == SequenceFindOne(document_sequences, f.req.company_id,
                               f.req.document_type, f.req.series)
  IN /\ f.op = "createInvoice" /\ f.pc = "findSequence"
     /\ IF found = {}
          THEN Step(r, Rollback(f, 400))
          ELSE Step(r, [f EXCEPT !.sequence = found, !.tx.snapshot = products,
                                 !.pc = "findProduct"])
     /\ UNCHANGED <<db, started, seq_writes>>

\* Product.findByPk(item.product_id, { transaction }) of the next item
\* resolves, served from the snapshot of the transaction.  A missing product
\* rolls back for a 400; a found one is processed, and after the last item
\* Invoice.create is called.
createInvoice_findProduct(r) ==
  LET f == frames[r]
      n == Len(f.processedItems) + 1
      product == ProductFindByPk(f.tx.snapshot, f.req.items[n].product_id)
  IN /\ f.op = "createInvoice" /\ f.pc = "findProduct"
     /\ IF product = {}
          THEN Step(r, Rollback(f, 400))
          ELSE \E item \in {ProcessedItem(f.req.items[n], the(product))} :
                 Step(r, [f EXCEPT !.processedItems = Append(@, item),
                                   !.totals = AddItem(@, item),
                                   !.pc = IF n = Len(f.req.items)
                                            THEN "createInvoice" ELSE "findProduct"])
     /\ UNCHANGED <<db, started, seq_writes>>

\* const total_amount = subtotal + tax_amount
total_amount(f) == Plus(f.totals.subtotal, f.totals.tax_amount)

\* The values passed to Invoice.create, with the defaults of the model: the
\* instance the call returns (amounts as doubles).
InvoiceValues(f, id) ==
  [id |-> id, company_id |-> f.req.company_id, customer_id |-> f.req.customer_id,
   invoice_number |-> invoice_number(f), series |-> f.req.series,
   correlative |-> correlative(f), document_type |-> f.req.document_type,
   subtotal |-> f.totals.subtotal,
   tax_amount |-> f.totals.tax_amount,
   discount_amount |-> f.totals.discount_amount,
   total_amount |-> total_amount(f),
   status |-> "draft", sunat_status |-> "pending", xml_content |-> FALSE,
   created_by |-> f.req.user_id]

\* An insert that marks the invoice as accepted by SUNAT.
InvoiceRowAccepted(f, id) ==
  [InvoiceValues(f, id) EXCEPT !.subtotal = Decimal2(@), !.tax_amount = Decimal2(@),
                               !.discount_amount = Decimal2(@),
                               !.total_amount = Decimal2(@),
                               !.sunat_status = "accepted"]

\* The row of invoices Invoice.create inserts (amounts in hundredths).
InvoiceRow(f, id) ==
  [InvoiceValues(f, id) EXCEPT !.subtotal = Decimal2(@), !.tax_amount = Decimal2(@),
                               !.discount_amount = Decimal2(@),
                               !.total_amount = Decimal2(@)]

\* The row InvoiceItem.create inserts for the n-th processed item of the
\* invoice `id` (amounts in hundredths).
InvoiceItemRow(f, id, n) ==
  [invoice_id |-> id, line |-> n, product_id |-> f.processedItems[n].product_id,
   quantity |-> f.processedItems[n].quantity,
   unit_price |-> f.processedItems[n].unit_price,
   discount_rate |-> f.processedItems[n].discount_rate,
   tax_rate |-> f.processedItems[n].tax_rate,
   subtotal |-> Decimal2(f.processedItems[n].subtotal),
   tax_amount |-> Decimal2(f.processedItems[n].tax_amount),
   total_amount |-> Decimal2(f.processedItems[n].total_amount)]

\* The table invoices without the index unique_company_number.
NoUniqueCompanyNumber(row, rows) == TRUE

\* The unique index unique_company_number of invoices: no row of `rows` has
\* the company_id and invoice_number of `row`.
UniqueCompanyNumber(row, rows) ==
  \A inv \in rows :
     ~(inv.company_id = row.company_id /\ inv.invoice_number = row.invoice_number)

\* Invoice.create(..., { transaction }) resolves: the INSERT takes the next
\* AUTO_INCREMENT value, waits while another transaction holds an uncommitted
\* row with the same unique key and fails on a committed one (the value it
\* took is not given back).  Then the first InvoiceItem.create is called.
createInvoice_create(r) ==
  LET f == frames[r]
  IN /\ f.op = "createInvoice" /\ f.pc = "createInvoice"
     /\ \E row \in {InvoiceRow(f, last_invoice_id + 1)} :
          /\ UniqueCompanyNumber(row, UNION {frames[q].tx.invoices : q \in Slots \ {r}})
          /\ IF UniqueCompanyNumber(row, SeqToSet(invoices))
               THEN Step(r, [f EXCEPT !.invoice = {InvoiceValues(f, row.id)},
                                      !.tx.invoices = {row},
                                      !.pc = "createItem"])
               ELSE Step(r, Catch(f, "SequelizeUniqueConstraintError"))
     /\ last_invoice_id' = last_invoice_id + 1
     /\ UNCHANGED <<document_sequences, invoices, invoice_items, products,
                    last_product_id, started, seq_writes>>

\* The ids of the invoice rows the invocation f inserted.
InvoiceIds(f) == {inv.id : inv \in f.invoice}

\* InvoiceItem.create({ invoice_id: invoice.id, ...item }, { transaction })
\* of the next processed item resolves; after the last one sequence.update
\* is called.
createInvoice_createItem(r) ==
  LET f == frames[r]
      n == Cardinality(f.tx.items) + 1
  IN /\ f.op = "createInvoice" /\ f.pc = "createItem"
     /\ Step(r, [f EXCEPT !.tx.items = @ \cup {InvoiceItemRow(f, the(InvoiceIds(f)), n)},
                          !.pc = IF n = Len(f.processedItems)
                                   THEN "updateSequence" ELSE "createItem"])
     /\ UNCHANGED <<db, started, seq_writes>>

\* The current_number of the row of `key`.
CurrentNumber(rows, key) == the({s \in rows : SeqKey(s) = key}).current_number

\* The log entry of a durable write of current_number by the invocation f:
\* the handler, the invoice it inserted in the same transaction (if any), the
\* row, the value held before the write and the value stored.
SeqWrite(f, key, to) ==
  [op |-> f.op, invoice_ids |-> InvoiceIds(f), key |-> key,
   from |-> CurrentNumber(document_sequences, key), to |-> to]

\* The sequence rows locked by the uncommitted UPDATEs of other transactions.
LockedSequences(r) ==
  UNION {{w.key : w \in frames[q].tx.sequences} : q \in Slots \ {r}}

\* sequence.update({ current_number: correlative }) without the transaction:
\* the new value is durable at once.
createInvoice_updateSequence_autocommit(r) ==
  LET f == frames[r]
      key == SeqKey(the(f.sequence))
  IN /\ f.op = "createInvoice" /\ f.pc = "updateSequence"
     /\ key \notin LockedSequences(r)
     /\ document_sequences' = SequenceSet(document_sequences, key, correlative(f))
     /\ seq_writes' = Append(seq_writes, SeqWrite(f, key, correlative(f)))
     /\ Step(r, [f EXCEPT !.tx.state = "commit", !.pc = "commit"])
     /\ UNCHANGED <<invoices, invoice_items, products, last_invoice_id,
                    last_product_id, started>>

\* sequence.update({ current_number: correlative }, { transaction }) resolves:
\* the UPDATE has taken the row lock, the new value is uncommitted.  Then
\* transaction.commit() is called, which marks the transaction finished.
createInvoice_updateSequence(r) ==
  LET f == frames[r]
  IN /\ f.op = "createInvoice" /\ f.pc = "updateSequence"
     /\ SeqKey(the(f.sequence)) \notin LockedSequences(r)
     /\ Step(r, [f EXCEPT !.tx.sequences =
                             {[key |-> SeqKey(the(f.sequence)),
                               current_number |-> correlative(f)]},
                          !.tx.state = "commit",
                          !.pc = "commit"])
     /\ UNCHANGED <<db, started, seq_writes>>

\* The table document_sequences after the writes `ws`.
ApplySequenceWrites(rows, ws) ==
  IF ws = {} THEN rows ELSE SequenceSet(rows, the(ws).key, the(ws).current_number)

\* COMMIT: every write of the transaction of f becomes durable at once.
CommitWrites(f) ==
  /\ invoices' = (IF f.tx.invoices = {} THEN invoices
                  ELSE Append(invoices, the(f.tx.invoices)))
  /\ invoice_items' = invoice_items \cup f.tx.items
  /\ document_sequences' = ApplySequenceWrites(document_sequences, f.tx.sequences)
  /\ seq_writes' = seq_writes
       \o (IF f.tx.sequences = {} THEN <<>>
           ELSE << SeqWrite(f, the(f.tx.sequences).key,
                            the(f.tx.sequences).current_number) >>)
  /\ UNCHANGED <<products, last_invoice_id, last_product_id>>

\* transaction.commit() resolves; Invoice.findByPk is called.
createInvoice_commit(r) ==
  LET f == frames[r]
  IN /\ f.op = "createInvoice" /\ f.pc = "commit"
     /\ CommitWrites(f)
     /\ Step(r, [f EXCEPT !.tx = [NoTx EXCEPT !.state = "commit"], !.pc = "reread"])
     /\ UNCHANGED started

\* The COMMIT is carried out but its acknowledgement is lost: commit()
\* rejects, and the rollback() of the catch block throws because the
\* transaction is finished.
createInvoice_commitUnacknowledged(r) ==
  LET f == frames[r]
  IN /\ f.op = "createInvoice" /\ f.pc = "commit"
     /\ CommitWrites(f)
     /\ End(r, Catch([f EXCEPT !.tx = [NoTx EXCEPT !.state = "commit"]], "Error"))
     /\ UNCHANGED started

\* Invoice.findByPk(invoice.id, { include: items }) outside the transaction:
\* the committed header and lines (amounts in hundredths).
completeInvoice(id) ==
  [invoice |-> {inv \in SeqToSet(invoices) : inv.id = id},
   items |-> {l \in invoice_items : l.invoice_id = id}]

\* Invoice.findByPk(invoice.id, ...) after the commit resolves, and the 201.
createInvoice_reread(r) ==
  LET f == frames[r]
  IN /\ f.op = "createInvoice" /\ f.pc = "reread"
     /\ End(r, [Finish(f, f.tx, 201) EXCEPT
                  !.res.data = completeInvoice(the(InvoiceIds(f))),
                  !.processedItems = f.processedItems])
     /\ UNCHANGED <<db, started, seq_writes>>

\* The rollback of the catch block resolves: the error is logged and the 500
\* is sent.
createInvoice_catch(r) ==
  LET f == frames[r]
  IN /\ f.op = "createInvoice" /\ f.pc = "catch"
     /\ End(r, [Finish(f, RolledBack, 500) EXCEPT !.res.error = f.res.error])
     /\ UNCHANGED <<db, started, seq_writes>>

\* The await the handler is at rejects (connection error, timeout, lock wait
\* timeout).  sequelize.transaction() is outside the try block: the handler
\* ends without a transaction and without a response.  Inside the try block
\* control goes to the catch block; a COMMIT that fails leaves nothing
\* durable.  A rejection of the rollback of the catch block leaves the
\* handler: nothing is logged or sent.
createInvoice_throw(r) ==
  LET f == frames[r]
  IN /\ f.op = "createInvoice"
     /\ IF f.pc = "transaction" THEN End(r, Finish(f, NoTx, 0))
        ELSE IF f.pc = "catch" THEN End(r, Finish(f, RolledBack, 0))
        ELSE IF f.tx.state = "active" THEN Step(r, Catch(f, "Error"))
        ELSE End(r, Catch(f, "Error"))
     /\ UNCHANGED <<db, started, seq_writes>>

(***************************************************************************)
(* getNextNumber                                                           *)
(***************************************************************************)

\* The handler is entered and calls UserCompany.findOne.
getNextNumber_begin(r, input) ==
  Start(r, NewFrame("getNextNumber", input, "findUserCompany"))

\* UserCompany.findOne resolves: the membership (any role) is checked, then
\* DocumentSequence.findOne is called.
getNextNumber_findUserCompany(r) ==
  LET f == frames[r]
  IN /\ f.op = "getNextNumber" /\ f.pc = "findUserCompany"
     /\ IF UserCompanyFindOne(f.req.user_id, f.req.company_id, AllRoles) = {}
          THEN End(r, Finish(f, NoTx, 403))
          ELSE Step(r, [f EXCEPT !.pc = "findSequence"])
     /\ UNCHANGED <<db, started, seq_writes>>

\* DocumentSequence.findOne outside any transaction resolves: it has read the
\* committed row; sequence.update is called.
getNextNumber_findSequence(r) ==
  LET f == frames[r]
      found == SequenceFindOne(document_sequences, f.req.company_id,
                               f.req.document_type, f.req.series)
  IN /\ f.op = "getNextNumber" /\ f.pc = "findSequence"
     /\ IF found = {}
          THEN End(r, Finish(f, NoTx, 404))
          ELSE Step(r, [f EXCEPT !.sequence = found, !.pc = "update"])
     /\ UNCHANGED <<db, started, seq_writes>>

\* const nextNumber = sequence.current_number + 1
nextNumber(f) == the(f.sequence).current_number + 1

\* const formattedNumber = `${sequence.prefix}${sequence.series}-${paddedNumber}${sequence.suffix}`
formattedNumber(f) ==
  FormatNumber(the(f.sequence).prefix, the(f.sequence).series, nextNumber(f),
               the(f.sequence).min_digits, the(f.sequence).suffix)

\* sequence.update({ current_number: nextNumber }) in autocommit resolves
\* (the UPDATE waits for the row lock), then the response with next_number.
getNextNumber_update(r) ==
  LET f == frames[r]
      key == SeqKey(the(f.sequence))
  IN /\ f.op = "getNextNumber" /\ f.pc = "update"
     /\ key \notin LockedSequences(r)
     /\ document_sequences' = SequenceSet(document_sequences, key, nextNumber(f))
     /\ seq_writes' = Append(seq_writes, SeqWrite(f, key, nextNumber(f)))
     /\ End(r, [Finish(f, NoTx, 200) EXCEPT !.res.next_number = nextNumber(f),
                                            !.res.formatted_number = formattedNumber(f)])
     /\ UNCHANGED <<invoices, invoice_items, products, last_invoice_id,
                    last_product_id, started>>

\* The await the handler is at rejects: the catch block answers 500.
getNextNumber_throw(r) ==
  Throw500(r, "getNextNumber", {"findUserCompany", "findSequence", "update"})

(***************************************************************************)
(* getCompanySequences                                                     *)
(***************************************************************************)

\* The handler is entered and calls UserCompany.findOne.
getCompanySequences_begin(r, input) ==
  Start(r, NewFrame("getCompanySequences", input, "findUserCompany"))

\* UserCompany.findOne resolves: the membership (any role) is checked, then
\* DocumentSequence.findAll is called.
getCompanySequences_findUserCompany(r) ==
  LET f == frames[r]
  IN /\ f.op = "getCompanySequences" /\ f.pc = "findUserCompany"
     /\ IF UserCompanyFindOne(f.req.user_id, f.req.company_id, AllRoles) = {}
          THEN End(r, Finish(f, NoTx, 403))
          ELSE Step(r, [f EXCEPT !.pc = "findAll"])
     /\ UNCHANGED <<db, started, seq_writes>>

\* DocumentSequence.findAll of the company resolves; the sequences are sent.
getCompanySequences_findAll(r) ==
  LET f == frames[r]
  IN /\ f.op = "getCompanySequences" /\ f.pc = "findAll"
     /\ End(r, Finish(f, NoTx, 200))
     /\ UNCHANGED <<db, started, seq_writes>>

\* The await the handler is at rejects: the catch block answers 500.
getCompanySequences_throw(r) ==
  Throw500(r, "getCompanySequences", {"findUserCompany", "findAll"})

(***************************************************************************)
(* createSequence                                                          *)
(***************************************************************************)

\* The table document_sequences without the index unique_company_series.
NoUniqueCompanySeries(row, rows) == TRUE

\* The unique index unique_company_series of document_sequences.
UniqueCompanySeries(row, rows) == \A s \in rows : SeqKey(s) # SeqKey(row)

\* The handler is entered and calls UserCompany.findOne.
createSequence_begin(r, input) ==
  Start(r, NewFrame("createSequence", input, "findUserCompany"))

\* UserCompany.findOne resolves: only an owner or admin goes on to
\* DocumentSequence.create.
createSequence_findUserCompany(r) ==
  LET f == frames[r]
  IN /\ f.op = "createSequence" /\ f.pc = "findUserCompany"
     /\ IF UserCompanyFindOne(f.req.user_id, f.req.company_id, {"owner", "admin"}) = {}
          THEN End(r, Finish(f, NoTx, 403))
          ELSE Step(r, [f EXCEPT !.pc = "create"])
     /\ UNCHANGED <<db, started, seq_writes>>

\* DocumentSequence.create resolves with the 201, or rejects with a
\* SequelizeUniqueConstraintError, which the catch block logs and answers
\* with a 409.
createSequence_create(r) ==
  LET f == frames[r]
      row == SequenceRow(f.req.company_id, f.req.document_type, f.req.series,
                         f.req.current_number, f.req.prefix, f.req.suffix,
                         f.req.min_digits, TRUE)
      created == UniqueCompanySeries(row, document_sequences)
  IN /\ f.op = "createSequence" /\ f.pc = "create"
     /\ IF created
          THEN End(r, Finish(f, NoTx, 201))
          ELSE End(r, [Finish(f, NoTx, 409)
                         EXCEPT !.res.error = "SequelizeUniqueConstraintError"])
     /\ document_sequences' =
          IF created THEN document_sequences \cup {row} ELSE document_sequences
     /\ UNCHANGED <<invoices, invoice_items, products, last_invoice_id,
                    last_product_id, started, seq_writes>>

\* The await the handler is at rejects with another error: the catch block
\* answers 500.
createSequence_throw(r) ==
  Throw500(r, "createSequence", {"findUserCompany", "create"})

(***************************************************************************)
(* generateXML and sendToSunat                                             *)
(***************************************************************************)

\* An update that also writes the invoice_number of the row.
InvoiceUpdateNumber(rows, read, values) ==
  [i \in 1 .. Len(rows) |->
     IF rows[i].id = read.id
       THEN [c \in DOMAIN rows[i] |->
               IF c \in DOMAIN values THEN values[c]
               ELSE IF c = "invoice_number" THEN "" ELSE rows[i][c]]
       ELSE rows[i]]

\* invoice.update(values) of the instance `read`: when no value differs from
\* the one the instance was read with, no statement is sent; otherwise the
\* UPDATE of its row sets every column that `values` names.
InvoiceUpdate(rows, read, values) ==
  IF \A c \in DOMAIN values : values[c] = read[c] THEN rows
  ELSE [i \in 1 .. Len(rows) |->
          IF rows[i].id = read.id
            THEN [c \in DOMAIN rows[i] |->
                    IF c \in DOMAIN values THEN values[c] ELSE rows[i][c]]
            ELSE rows[i]]

\* The handler is entered and calls UserCompany.findOne.
generateXML_begin(r, input) ==
  Start(r, NewFrame("generateXML", input, "findUserCompany"))

\* UserCompany.findOne resolves: the membership (any role) is checked, then
\* Invoice.findOne is called.
generateXML_findUserCompany(r) ==
  LET f == frames[r]
  IN /\ f.op = "generateXML" /\ f.pc = "findUserCompany"
     /\ IF UserCompanyFindOne(f.req.user_id, f.req.company_id, AllRoles) = {}
          THEN End(r, Finish(f, NoTx, 403))
          ELSE Step(r, [f EXCEPT !.pc = "findInvoice"])
     /\ UNCHANGED <<db, started, seq_writes>>

\* Invoice.findOne resolves: a 404, or the XML is generated and
\* invoice.update({ xml_content }) is called.
generateXML_findInvoice(r) ==
  LET f == frames[r]
      found == InvoiceFindOne(invoices, f.req.id, f.req.company_id)
  IN /\ f.op = "generateXML" /\ f.pc = "findInvoice"
     /\ IF found = {}
          THEN End(r, Finish(f, NoTx, 404))
          ELSE Step(r, [f EXCEPT !.found = found, !.pc = "update"])
     /\ UNCHANGED <<db, started, seq_writes>>

\* invoice.update({ xml_content: xmlContent }) resolves and the XML is sent.
generateXML_update(r) ==
  LET f == frames[r]
  IN /\ f.op = "generateXML" /\ f.pc = "update"
     /\ invoices' = InvoiceUpdate(invoices, the(f.found), [xml_content |-> TRUE])
     /\ End(r, Finish(f, NoTx, 200))
     /\ UNCHANGED <<document_sequences, invoice_items, products, last_invoice_id,
                    last_product_id, started, seq_writes>>

\* The await the handler is at rejects: the catch block answers 500.
generateXML_throw(r) ==
  Throw500(r, "generateXML", {"findUserCompany", "findInvoice", "update"})

\* The handler is entered and calls UserCompany.findOne.
sendToSunat_begin(r, input) ==
  Start(r, NewFrame("sendToSunat", input, "findUserCompany"))

\* UserCompany.findOne resolves: an owner, admin or accountant goes on to
\* Invoice.findOne.
sendToSunat_findUserCompany(r) ==
  LET f == frames[r]
  IN /\ f.op = "sendToSunat" /\ f.pc = "findUserCompany"
     /\ IF UserCompanyFindOne(f.req.user_id, f.req.company_id,
                              {"owner", "admin", "accountant"}) = {}
          THEN End(r, Finish(f, NoTx, 403))
          ELSE Step(r, [f EXCEPT !.pc = "findInvoice"])
     /\ UNCHANGED <<db, started, seq_writes>>

\* Invoice.findOne resolves: a 404, a 400 for an invoice without XML, or
\* simulateSunatSend is called.
sendToSunat_findInvoice(r) ==
  LET f == frames[r]
      found == InvoiceFindOne(invoices, f.req.id, f.req.company_id)
  IN /\ f.op = "sendToSunat" /\ f.pc = "findInvoice"
     /\ IF found = {} THEN End(r, Finish(f, NoTx, 404))
        ELSE IF ~the(found).xml_content THEN End(r, Finish(f, NoTx, 400))
        ELSE Step(r, [f EXCEPT !.found = found, !.pc = "update"])
     /\ UNCHANGED <<db, started, seq_writes>>

\* simulateSunatSend has answered (it touches no table and cannot reject)
\* with success or not, and invoice.update of sunat_status,
\* sunat_response_code, sunat_response_message and status resolves; the
\* response is sent.  The code and the message are those of the sunat_status
\* (none while it is pending), so that they differ from the ones read when
\* the sunat_status does.
sendToSunat_update(r, success) ==
  LET f == frames[r]
  IN /\ f.op = "sendToSunat" /\ f.pc = "update"
     /\ invoices' = InvoiceUpdate(invoices, the(f.found),
                                  [sunat_status |-> IF success THEN "accepted" ELSE "rejected",
                                   status |-> IF success THEN "sent" ELSE "draft"])
     /\ End(r, Finish(f, NoTx, 200))
     /\ UNCHANGED <<document_sequences, invoice_items, products, last_invoice_id,
                    last_product_id, started, seq_writes>>

\* The await the handler is at rejects: the catch block answers 500.
sendToSunat_throw(r) ==
  Throw500(r, "sendToSunat", {"findUserCompany", "findInvoice", "update"})

(***************************************************************************)
(* createProduct and updateProduct                                         *)
(***************************************************************************)

\* The unique index unique_company_code of products admits `row` next to
\* `rows`.
UniqueCompanyCode(row, rows) ==
  \A p \in rows : ~(p.company_id = row.company_id /\ p.code = row.code)

\* The validation of the model Product accepts the values.  The tables of the
\* model do not hold the column description: `description` is "string" for a
\* body whose description is a text other than the one stored, "object" for
\* a body whose description is an object, which the TEXT column refuses.
\* code, name and price are there when the validation runs.
ValidProduct(productData) ==
  "description" \in DOMAIN productData => productData.description = "string"

\* The handler is entered and calls UserCompany.findOne.
createProduct_begin(r, input) ==
  Start(r, NewFrame("createProduct", input, "findUserCompany"))

\* UserCompany.findOne resolves: an owner, admin or accountant passes; a body
\* without code, name or price is answered with a 400; else Product.create is
\* called.
createProduct_findUserCompany(r) ==
  LET f == frames[r]
      productData == f.req.productData
  IN /\ f.op = "createProduct" /\ f.pc = "findUserCompany"
     /\ IF UserCompanyFindOne(f.req.user_id, f.req.company_id,
                              {"owner", "admin", "accountant"}) = {}
          THEN End(r, Finish(f, NoTx, 403))
          ELSE IF \/ "code" \notin DOMAIN productData \/ productData.code = ""
                  \/ "name" \notin DOMAIN productData \/ productData.name = ""
                  \/ "price" \notin DOMAIN productData \/ productData.price = 0
                 THEN End(r, Finish(f, NoTx, 400))
                 ELSE Step(r, [f EXCEPT !.pc = "create"])
     /\ UNCHANGED <<db, started, seq_writes>>

\* Product.create({ ...productData, company_id: companyId }): the row takes
\* the id of the body, the next id when the body names none, the company of
\* the path and the igv_rate of the body, 18.00 when the body names none.
\* A description that is no string fails the validation of the model before
\* any statement is sent: the catch block logs the SequelizeValidationError
\* and answers 400.  Otherwise the INSERT resolves with the 201, or is refused
\* by the primary key or by the unique index of (company_id, code), which the
\* catch block logs and answers with a 409.  An INSERT without an id uses up
\* the next id, refused or not; an INSERT with an id moves the counter up to
\* that id when it succeeds.
createProduct_create(r) ==
  LET f == frames[r]
      productData == f.req.productData
      named == "id" \in DOMAIN productData
      row == [id |-> IF named THEN productData.id ELSE last_product_id + 1,
              company_id |-> f.req.company_id,
              code |-> productData.code,
              igv_rate |-> IF "igv_rate" \in DOMAIN productData
                             THEN productData.igv_rate ELSE 18]
      created == /\ ProductFindByPk(products, row.id) = {}
                 /\ UniqueCompanyCode(row, products)
  IN /\ f.op = "createProduct" /\ f.pc = "create"
     /\ IF ~ValidProduct(productData)
          THEN /\ End(r, [Finish(f, NoTx, 400)
                            EXCEPT !.res.error = "SequelizeValidationError"])
               /\ UNCHANGED <<products, last_product_id>>
          ELSE /\ IF created
                    THEN End(r, Finish(f, NoTx, 201))
                    ELSE End(r, [Finish(f, NoTx, 409)
                                   EXCEPT !.res.error = "SequelizeUniqueConstraintError"])
               /\ products' = IF created THEN products \cup {row} ELSE products
               /\ last_product_id' =
                    IF ~named THEN last_product_id + 1
                    ELSE IF created /\ row.id > last_product_id THEN row.id
                    ELSE last_product_id
     /\ UNCHANGED <<document_sequences, invoices, invoice_items, last_invoice_id,
                    started, seq_writes>>

\* The await the handler is at rejects with an error that is neither of the
\* two: the catch block answers 500.
createProduct_throw(r) ==
  Throw500(r, "createProduct", {"findUserCompany", "create"})

\* The handler is entered and calls UserCompany.findOne.
updateProduct_begin(r, input) ==
  Start(r, NewFrame("updateProduct", input, "findUserCompany"))

\* UserCompany.findOne resolves: an owner, admin or accountant goes on to
\* Product.findOne.
updateProduct_findUserCompany(r) ==
  LET f == frames[r]
  IN /\ f.op = "updateProduct" /\ f.pc = "findUserCompany"
     /\ IF UserCompanyFindOne(f.req.user_id, f.req.company_id,
                              {"owner", "admin", "accountant"}) = {}
          THEN End(r, Finish(f, NoTx, 403))
          ELSE Step(r, [f EXCEPT !.pc = "findProduct"])
     /\ UNCHANGED <<db, started, seq_writes>>

\* Product.findOne of a product of the company resolves: a 404, or
\* product.update(req.body) is called.
updateProduct_findProduct(r) ==
  LET f == frames[r]
      found == ProductFindOne(products, f.req.id, f.req.company_id)
  IN /\ f.op = "updateProduct" /\ f.pc = "findProduct"
     /\ IF found = {}
          THEN End(r, Finish(f, NoTx, 404))
          ELSE Step(r, [f EXCEPT !.found = found, !.pc = "update"])
     /\ UNCHANGED <<db, started, seq_writes>>

\* product.update(updateData): every column the body names is set on the
\* instance, the primary key excepted.  When no value differs from the one
\* the instance was read with, no statement is sent (a number for igv_rate
\* always differs from the string the DECIMAL column was read as, and a
\* description the body names differs from the one stored).  Otherwise the
\* values are validated and the UPDATE of the row sets every column the body
\* names.  The update resolves with the 200, or rejects with a
\* SequelizeValidationError or on the unique index of (company_id, code),
\* which the catch block logs and answers with a 500.
updateProduct_update(r) ==
  LET f == frames[r]
      updateData == f.req.productData
      product == the(f.found)
      named == (DOMAIN updateData \cap DOMAIN product) \ {"id"}
      changed == \/ \E c \in named :
                      \/ updateData[c] # product[c]
                      \/ c = "igv_rate" /\ updateData[c] # Null
                 \/ "description" \in DOMAIN updateData
      stored == the(ProductFindByPk(products, product.id))
      row == [c \in DOMAIN stored |-> IF c \in named THEN updateData[c] ELSE stored[c]]
  IN /\ f.op = "updateProduct" /\ f.pc = "update"
     /\ IF ~changed
          THEN /\ End(r, Finish(f, NoTx, 200))
               /\ UNCHANGED products
          ELSE IF ~ValidProduct(updateData)
          THEN /\ End(r, [Finish(f, NoTx, 500)
                            EXCEPT !.res.error = "SequelizeValidationError"])
               /\ UNCHANGED products
          ELSE IF UniqueCompanyCode(row, products \ {stored})
          THEN /\ End(r, Finish(f, NoTx, 200))
               /\ products' = (products \ {stored}) \cup {row}
          ELSE /\ End(r, [Finish(f, NoTx, 500)
                            EXCEPT !.res.error = "SequelizeUniqueConstraintError"])
               /\ UNCHANGED products
     /\ UNCHANGED <<document_sequences, invoices, invoice_items, last_invoice_id,
                    last_product_id, started, seq_writes>>

\* The await the handler is at rejects: the catch block answers 500.
updateProduct_throw(r) ==
  Throw500(r, "updateProduct", {"findUserCompany", "findProduct", "update"})

\* The process dies while the request is in flight: the connection closes and
\* the server rolls back what the transaction had not committed.
Crash(r) ==
  LET f == frames[r]
  IN /\ f.pc # "idle"
     /\ End(r, [f EXCEPT !.pc = "crashed", !.tx = [NoTx EXCEPT !.state = f.tx.state],
                         !.sequence = {}, !.processedItems = <<>>,
                         !.totals = NoTotals, !.found = {}, !.reply = 0])
     /\ UNCHANGED <<db, started, seq_writes>>

(***************************************************************************)
(* Initial state and the steps of the handlers                             *)
(***************************************************************************)

Init ==
  /\ document_sequences =
       { SequenceRow(1, "invoice", "F001", 0, "", "", 8, TRUE),
         SequenceRow(1, "invoice", "B001", 0, "", "", 8, FALSE) }
  /\ invoices = <<>>
  /\ invoice_items = {}
  /\ products = { [id |-> 1, company_id |-> 1, code |-> "P1", igv_rate |-> 18],
                  [id |-> 2, company_id |-> 2, code |-> "P2", igv_rate |-> 18] }
  /\ last_invoice_id = 0
  /\ last_product_id = 2
  /\ started = 0
  /\ frames = [r \in Slots |-> IdleFrame]
  /\ ended = IdleFrame
  /\ seq_writes = <<>>

\* The steps of a createInvoice in flight.
createInvoice_step(r) ==
  \/ createInvoice_transaction(r)
  \/ createInvoice_findUserCompany(r)
  \/ createInvoice_rollback(r)
  \/ createInvoice_findSequence(r)
  \/ createInvoice_findProduct(r)
  \/ createInvoice_create(r)
  \/ createInvoice_createItem(r)
  \/ createInvoice_updateSequence(r)
  \/ createInvoice_commit(r)
  \/ createInvoice_commitUnacknowledged(r)
  \/ createInvoice_reread(r)
  \/ createInvoice_catch(r)
  \/ createInvoice_throw(r)

\* The steps of a getNextNumber in flight.
getNextNumber_step(r) ==
  \/ getNextNumber_findUserCompany(r)
  \/ getNextNumber_findSequence(r)
  \/ getNextNumber_update(r)
  \/ getNextNumber_throw(r)

\* The steps of a createSequence in flight.
createSequence_step(r) ==
  \/ createSequence_findUserCompany(r)
  \/ createSequence_create(r)
  \/ createSequence_throw(r)

\* The steps of an updateProduct in flight.
updateProduct_step(r) ==
  \/ updateProduct_findUserCompany(r)
  \/ updateProduct_findProduct(r)
  \/ updateProduct_update(r)
  \/ updateProduct_throw(r)

(***************************************************************************)
(* Issuance: the two handlers that allocate numbers                        *)
(***************************************************************************)

\* createInvoice and getNextNumber requests for the sequence invoice/F001,
\* up to MaxConc of them in flight.
IssuanceNext ==
  \E r \in Slots :
     \/ \E input \in CreateInvoiceInputs : createInvoice_begin(r, input)
     \/ createInvoice_step(r)
     \/ getNextNumber_begin(r, BaseReq)
     \/ getNextNumber_step(r)
     \/ Crash(r)

IssuanceSpec == Init /\ [][IssuanceNext]_vars

(***************************************************************************)
(* Specification: every handler that reads or writes sequences, invoices   *)
(* or products                                                             *)
(***************************************************************************)

\* The number of requests in flight at once in the behaviours of the
\* specifications below, which vary the requests rather than their number.
MaxConcOther == 2

\* The number of requests in flight.
InFlight == Cardinality({r \in Slots : frames[r].pc # "idle"})

\* A complete body: one unit of product 1.
CompleteReq == [BaseReq EXCEPT !.items = <<Item(1)>>]

\* The handlers that write document_sequences, invoices, invoice_items or a
\* column of products that a handler reads (deleteProduct writes is_active,
\* which none reads), and getCompanySequences: requests for company 1, its
\* sequence invoice/F001, its invoice 1 and its product 1.  createInvoice is
\* also called by user 3, who has no membership, and for product 3, which
\* createProduct creates; createProduct is called with a new code (and a rate
\* of 10), with the code of product 1, without a code, with the id of
\* product 1 and with an object as description; updateProduct sets the rate
\* of product 1, moves it to company 2, gives it the code of product 3 and
\* names an object as its description.
Next ==
  \E r \in Slots :
     \/ /\ InFlight < MaxConcOther
        /\ \/ \E input \in {CompleteReq, [CompleteReq EXCEPT !.user_id = 3],
                             [CompleteReq EXCEPT !.items = <<Item(3)>>]} :
                 createInvoice_begin(r, input)
           \/ getNextNumber_begin(r, BaseReq)
           \/ getCompanySequences_begin(r, BaseReq)
           \/ createSequence_begin(r, BaseReq)
           \/ generateXML_begin(r, [BaseReq EXCEPT !.id = 1])
           \/ sendToSunat_begin(r, [BaseReq EXCEPT !.id = 1])
           \/ \E productData \in
                   { [code |-> "P3", name |-> "Product 3", price |-> 1000, igv_rate |-> 10],
                     [code |-> "P1", name |-> "Product 1", price |-> 1000],
                     [name |-> "Product", price |-> 1000],
                     [id |-> 1, code |-> "P4", name |-> "Product 4", price |-> 1000],
                     [code |-> "P5", name |-> "Product 5", price |-> 1000,
                      description |-> "object"] } :
                 createProduct_begin(r, [BaseReq EXCEPT !.productData = productData])
           \/ \E updateData \in {[igv_rate |-> 10], [igv_rate |-> 10, company_id |-> 2],
                                  [code |-> "P3"],
                                  [igv_rate |-> 0, description |-> "object"]} :
                 updateProduct_begin(r, [BaseReq EXCEPT !.id = 1, !.productData = updateData])
     \/ createProduct_findUserCompany(r)
     \/ createProduct_create(r)
     \/ createProduct_throw(r)
     \/ createInvoice_step(r)
     \/ getNextNumber_step(r)
     \/ getCompanySequences_findUserCompany(r)
     \/ getCompanySequences_findAll(r)
     \/ getCompanySequences_throw(r)
     \/ createSequence_step(r)
     \/ generateXML_findUserCompany(r)
     \/ generateXML_findInvoice(r)
     \/ generateXML_update(r)
     \/ generateXML_throw(r)
     \/ sendToSunat_findUserCompany(r)
     \/ sendToSunat_findInvoice(r)
     \/ \E success \in BOOLEAN : sendToSunat_update(r, success)
     \/ sendToSunat_throw(r)
     \/ updateProduct_step(r)
     \/ Crash(r)

Spec == Init /\ [][Next]_vars

(***************************************************************************)
(* Committed invoices: the handlers that write an invoice after its        *)
(* issuance                                                                *)
(***************************************************************************)

\* The tables after the createInvoice of CompleteReq and a generateXML of the
\* invoice: invoice 1 is committed with its line and has its XML.
IssuedInit ==
  /\ document_sequences =
       { SequenceRow(1, "invoice", "F001", 1, "", "", 8, TRUE),
         SequenceRow(1, "invoice", "B001", 0, "", "", 8, FALSE) }
  /\ invoices =
       << [id |-> 1, company_id |-> 1, customer_id |-> 1,
           invoice_number |-> "F001-00000001", series |-> "F001", correlative |-> 1,
           document_type |-> "invoice", subtotal |-> 1000, tax_amount |-> 180,
           discount_amount |-> 0, total_amount |-> 1180, status |-> "draft",
           sunat_status |-> "pending", xml_content |-> TRUE, created_by |-> 1] >>
  /\ invoice_items =
       { [invoice_id |-> 1, line |-> 1, product_id |-> 1, quantity |-> 1,
          unit_price |-> 1000, discount_rate |-> 0, tax_rate |-> 18,
          subtotal |-> 1000, tax_amount |-> 180, total_amount |-> 1180] }
  /\ products = { [id |-> 1, company_id |-> 1, code |-> "P1", igv_rate |-> 18],
                  [id |-> 2, company_id |-> 2, code |-> "P2", igv_rate |-> 18] }
  /\ last_invoice_id = 1
  /\ last_product_id = 2
  /\ started = 0
  /\ frames = [r \in Slots |-> IdleFrame]
  /\ ended = IdleFrame
  /\ seq_writes = << [key |-> <<1, "invoice", "F001">>, op |-> "createInvoice",
                      from |-> 0, to |-> 1, invoice_ids |-> {1}] >>

\* generateXML and sendToSunat requests for invoice 1, two of them in flight
\* at once, so that an update writes over what another wrote after the read;
\* updateProduct requests that set the rate of product 1, and further
\* issuances, also by user 3, who has no membership.
IssuedNext ==
  \E r \in Slots :
     \/ /\ InFlight < MaxConcOther
        /\ \/ \E input \in {CompleteReq, [CompleteReq EXCEPT !.user_id = 3]} :
                 createInvoice_begin(r, input)
           \/ generateXML_begin(r, [BaseReq EXCEPT !.id = 1])
           \/ sendToSunat_begin(r, [BaseReq EXCEPT !.id = 1])
           \/ updateProduct_begin(r, [BaseReq EXCEPT !.id = 1,
                                                     !.productData = [igv_rate |-> 10]])
     \/ createInvoice_step(r)
     \/ generateXML_findUserCompany(r)
     \/ generateXML_findInvoice(r)
     \/ generateXML_update(r)
     \/ generateXML_throw(r)
     \/ sendToSunat_findUserCompany(r)
     \/ sendToSunat_findInvoice(r)
     \/ \E success \in BOOLEAN : sendToSunat_update(r, success)
     \/ sendToSunat_throw(r)
     \/ updateProduct_step(r)
     \/ Crash(r)

IssuedSpec == IssuedInit /\ [][IssuedNext]_vars

(***************************************************************************)
(* Sequences: keys that exist, that are inactive and that are missing      *)
(***************************************************************************)

\* createInvoice bodies for invoice/F001 (active), invoice/B001 (inactive)
\* and credit_note/F001 (missing at first).
SequenceInputs ==
  { CompleteReq,
    [CompleteReq EXCEPT !.series = "B001"],
    [CompleteReq EXCEPT !.document_type = "credit_note"] }

\* createSequence and createInvoice requests over these keys, and
\* getNextNumber requests for the inactive and the missing one; createSequence
\* is called for the key that exists and for the missing one, for this also
\* by user 2.
SequencesNext ==
  \E r \in Slots :
     \/ /\ InFlight < MaxConcOther
        /\ \/ \E input \in { BaseReq,
                              [BaseReq EXCEPT !.document_type = "credit_note"],
                              [BaseReq EXCEPT !.user_id = 2,
                                              !.document_type = "credit_note"] } :
                 createSequence_begin(r, input)
           \/ \E input \in SequenceInputs : createInvoice_begin(r, input)
           \/ \E input \in SequenceInputs \ {CompleteReq} : getNextNumber_begin(r, input)
     \/ createSequence_step(r)
     \/ createInvoice_step(r)
     \/ getNextNumber_step(r)
     \/ Crash(r)

SequencesSpec == Init /\ [][SequencesNext]_vars

(***************************************************************************)
(* Number formatting over the sequences createSequence can create          *)
(***************************************************************************)

\* No sequence exists yet.
FormatInit ==
  /\ document_sequences = {}
  /\ invoices = <<>>
  /\ invoice_items = {}
  /\ products = { [id |-> 1, company_id |-> 1, code |-> "P1", igv_rate |-> 18] }
  /\ last_invoice_id = 0
  /\ last_product_id = 1
  /\ started = 0
  /\ frames = [r \in Slots |-> IdleFrame]
  /\ ended = IdleFrame
  /\ seq_writes = <<>>

\* createSequence, then allocations by createInvoice and getNextNumber, one
\* request at a time.  The bodies of createSequence are for the key (1,
\* invoice, F001): the counter just below a power of ten or at zero, with and
\* without prefix and suffix, and min_digits below, at and above the number
\* of digits of the next number.
FormatNext ==
  \/ \E n \in {0, 99, 999}, pre \in {"", "E"}, suf \in {"", "/A"}, md \in {1, 3, 8} :
        createSequence_begin(1, [BaseReq EXCEPT !.current_number = n, !.prefix = pre,
                                                !.suffix = suf, !.min_digits = md])
  \/ createSequence_step(1)
  \/ createInvoice_begin(1, CompleteReq)
  \/ createInvoice_step(1)
  \/ getNextNumber_begin(1, BaseReq)
  \/ getNextNumber_step(1)
  \/ Crash(1)

FormatSpec == FormatInit /\ [][FormatNext]_vars

(***************************************************************************)
(* Amounts: createInvoice over a range of lines                            *)
(***************************************************************************)

\* The number of requests of a behaviour of LinesSpec.
MaxLineReq == 1

\* Elements of req.body.items: the documented example (3 x 10.00 at 5%),
\* prices and discounts whose amounts have more than two decimals or end on
\* half a hundredth (0.30 at 25%, 0.35 at 10%, 1.25 and 9.75 at 18% tax), and
\* lines with a quantity of 0 or -1, a discount of 150% and a price of -1.00.
Lines ==
  { LineItem(1, 3, 1000, 5), LineItem(1, 1, 102, 0), LineItem(1, 1, 103, 5),
    LineItem(1, 1, 30, 25), LineItem(1, 1, 35, 10), LineItem(1, 1, 125, 0),
    LineItem(1, 1, 975, 0), LineItem(1, 0, 1000, 0), LineItem(1, 0 - 1, 1000, 0),
    LineItem(1, 1, 1000, 150), LineItem(1, 1, 0 - 100, 0) }

\* One active sequence and one product at 18%.
LinesInit ==
  /\ document_sequences = { SequenceRow(1, "invoice", "F001", 0, "", "", 8, TRUE) }
  /\ invoices = <<>>
  /\ invoice_items = {}
  /\ products = { [id |-> 1, company_id |-> 1, code |-> "P1", igv_rate |-> 18] }
  /\ last_invoice_id = 0
  /\ last_product_id = 1
  /\ started = 0
  /\ frames = [r \in Slots |-> IdleFrame]
  /\ ended = IdleFrame
  /\ seq_writes = <<>>

\* createInvoice requests, one at a time: bodies with one or two of these
\* lines, and one with a line of product 9, which does not exist.
LinesNext ==
  \/ /\ started < MaxLineReq
     /\ \E input \in {[BaseReq EXCEPT !.items = <<a>>] : a \in Lines}
                        \cup {[BaseReq EXCEPT !.items = <<a, b>>] : a \in Lines, b \in Lines}
                        \cup {[BaseReq EXCEPT !.items = <<Item(1), Item(9)>>]} :
           createInvoice_begin(1, input)
  \/ createInvoice_step(1)
  \/ Crash(1)

LinesSpec == LinesInit /\ [][LinesNext]_vars

(***************************************************************************)
(* Tax rates: createInvoice while the rate of the product changes          *)
(***************************************************************************)

\* createInvoice requests for one unit of product 1 (and for product 9, which
\* does not exist), and updates of its rate in between and while a request
\* is in flight.
RatesNext ==
  \E r \in Slots :
     \/ /\ InFlight < MaxConcOther
        /\ \/ \E x \in {0, 10, Null} :
                updateProduct_begin(r, [BaseReq EXCEPT !.id = 1,
                                                   !.productData = [igv_rate |-> x]])
           \/ \E input \in {CompleteReq, [CompleteReq EXCEPT !.items = <<Item(9)>>]} :
                 createInvoice_begin(r, input)
     \/ updateProduct_step(r)
     \/ createInvoice_step(r)
     \/ Crash(r)

RatesSpec == LinesInit /\ [][RatesNext]_vars

(***************************************************************************)
(* Permission and validation: createInvoice by callers without a role and  *)
(* with fields of the body missing                                         *)
(***************************************************************************)

\* The complete body, the body with each required field missing in turn,
\* with an empty item list, and a complete body and a body without customer
\* from user 3.
ValidationNext ==
  \E r \in Slots :
     \/ /\ InFlight < MaxConcOther
        /\ \E input \in { CompleteReq,
                           [CompleteReq EXCEPT !.customer_id = 0],
                           [CompleteReq EXCEPT !.document_type = ""],
                           [CompleteReq EXCEPT !.series = ""],
                           [CompleteReq EXCEPT !.issue_date = ""],
                           [CompleteReq EXCEPT !.items = <<>>],
                           [CompleteReq EXCEPT !.user_id = 3],
                           [CompleteReq EXCEPT !.customer_id = 0, !.user_id = 3] } :
              createInvoice_begin(r, input)
     \/ createInvoice_step(r)
     \/ Crash(r)

ValidationSpec == LinesInit /\ [][ValidationNext]_vars

(***************************************************************************)
(* Two companies                                                           *)
(***************************************************************************)

\* The number of requests of a behaviour of CompaniesSpec.
MaxCompanyReq == 2

\* Both companies have the sequence invoice/F001; company 1 has B001 too.
CompaniesInit ==
  /\ document_sequences =
       { SequenceRow(1, "invoice", "F001", 0, "", "", 8, TRUE),
         SequenceRow(1, "invoice", "B001", 0, "", "", 8, TRUE),
         SequenceRow(2, "invoice", "F001", 0, "", "", 8, TRUE) }
  /\ invoices = <<>>
  /\ invoice_items = {}
  /\ products = { [id |-> 1, company_id |-> 1, code |-> "P1", igv_rate |-> 18],
                  [id |-> 2, company_id |-> 2, code |-> "P2", igv_rate |-> 18] }
  /\ last_invoice_id = 0
  /\ last_product_id = 2
  /\ started = 0
  /\ frames = [r \in Slots |-> IdleFrame]
  /\ ended = IdleFrame
  /\ seq_writes = <<>>

\* createInvoice and getNextNumber requests of both companies (user 4 asks
\* for one unit of product 2 for company 2), and of user 1 for company 2,
\* where they have no membership.
CompaniesNext ==
  \E r \in Slots :
     \/ /\ started < MaxCompanyReq
        /\ \E input \in {CompleteReq,
                          [BaseReq EXCEPT !.user_id = 4, !.company_id = 2,
                                          !.items = <<Item(2)>>],
                          [BaseReq EXCEPT !.company_id = 2, !.items = <<Item(2)>>]} :
              createInvoice_begin(r, input) \/ getNextNumber_begin(r, input)
     \/ createInvoice_step(r)
     \/ getNextNumber_step(r)
     \/ Crash(r)

CompaniesSpec == CompaniesInit /\ [][CompaniesNext]_vars

(***************************************************************************)
(* Properties                                                              *)
(***************************************************************************)

\* The sequence key an invoice row was numbered from.
InvoiceKey(inv) == <<inv.company_id, inv.document_type, inv.series>>

\* The committed invoices of a key, in commit order.
InvoicesOf(key) == SelectSeq(invoices, LAMBDA inv : InvoiceKey(inv) = key)

\* The keys of the sequences that exist.
Keys == {SeqKey(s) : s \in document_sequences}

\* C1: in every reachable state no two committed invoices have the same
\* (company_id, document_type, series, correlative).
C1_UniqueCorrelative ==
  \A i, j \in 1 .. Len(invoices) :
     (InvoiceKey(invoices[i]) = InvoiceKey(invoices[j])
        /\ invoices[i].correlative = invoices[j].correlative) => i = j

\* C1 case: two invoices of one key are committed, and the insert of a
\* createInvoice that had computed a committed number was rejected.
C1_Witness ==
  /\ \E i, j \in 1 .. Len(invoices) :
        i # j /\ InvoiceKey(invoices[i]) = InvoiceKey(invoices[j])
  /\ ended.op = "createInvoice"
  /\ ended.res.error = "SequelizeUniqueConstraintError"

\* C2: two concurrent createInvoice requests of one key never compute their
\* correlative from the same observed current_number, so that they never get
\* the same correlative.
C2_DistinctObserved ==
  \A p, q \in Slots :
     (/\ p # q
      /\ frames[p].op = "createInvoice" /\ frames[p].sequence # {}
      /\ frames[q].op = "createInvoice" /\ frames[q].sequence # {}
      /\ SeqKey(the(frames[p].sequence)) = SeqKey(the(frames[q].sequence)))
     => correlative(frames[p]) # correlative(frames[q])

\* The durable writes of current_number made by the createInvoice that
\* inserted the invoices `ids`.
WritesOf(ids) ==
  SelectSeq(seq_writes, LAMBDA w : w.op = "createInvoice" /\ w.invoice_ids \cap ids # {})

\* C3: a createInvoice whose handler ended without its 201, at whatever step
\* after reading the sequence, has written nothing durable to current_number.
C3_FailedLeavesCounter ==
  (ended.op = "createInvoice" /\ ended.pc = "done" /\ ended.res.status # 201)
  => WritesOf(InvoiceIds(ended)) = <<>>

\* C4: when a createInvoice request has ended (response sent, catch block
\* left, or crash), either its header, as many lines as it had items and the
\* write of its correlative to current_number are all durable, or no header,
\* no line and no counter write of the request is.
C4_AllOrNothing ==
  ended.op = "createInvoice" =>
    LET ids == InvoiceIds(ended)
        header == {i \in 1 .. Len(invoices) : invoices[i].id \in ids}
        lines == {l \in invoice_items : l.invoice_id \in ids}
        writes == WritesOf(ids)
    IN \/ /\ header # {}
          /\ Cardinality(lines) = Len(ended.req.items)
          /\ Len(writes) = 1
          /\ \A i \in header :
                /\ writes[1].to = invoices[i].correlative
                /\ writes[1].key = InvoiceKey(invoices[i])
       \/ /\ header = {}
          /\ lines = {}
          /\ writes = <<>>

\* C4 cases: a request ended with everything durable; a request that had
\* inserted its header and lines ended with nothing durable.
C4_Witness ==
  /\ ended.op = "createInvoice" /\ ended.invoice # {}
  /\ ended.tx.state = "rollback"
  /\ Len(invoices) = 1 /\ Len(seq_writes) = 1 /\ Cardinality(invoice_items) = 2

\* C5: every durable write of current_number, by createInvoice or by
\* getNextNumber, stores a value strictly greater than the value the row held
\* immediately before the write.
C5_WritesIncrease ==
  \A i \in 1 .. Len(seq_writes) : seq_writes[i].to > seq_writes[i].from

\* No request is in flight.
Quiescent == \A r \in Slots : frames[r].pc = "idle"

\* The durable writes of current_number of the row of `key`.
WritesTo(key) == SelectSeq(seq_writes, LAMBDA w : w.key = key)

\* The current_number the sequence of `key` was created with.
InitialNumber(key) ==
  IF WritesTo(key) = <<>> THEN CurrentNumber(document_sequences, key)
  ELSE WritesTo(key)[1].from

\* C6: in every quiescent state, for each key, current_number minus
\* the number the sequence was created with is the number of committed
\* invoices of the key.
C6_AdvanceIsInvoice ==
  Quiescent =>
    \A key \in Keys :
       CurrentNumber(document_sequences, key) - InitialNumber(key)
         = Len(InvoicesOf(key))

\* The createInvoice of slot r, whose commit() is under way, takes this step.
Commits(r) ==
  /\ frames[r].op = "createInvoice" /\ frames[r].pc = "commit"
  /\ frames'[r] # frames[r]

\* C7: the current_number of an existing sequence changes only in
\* the commit of a createInvoice transaction; every other step of every
\* handler leaves it unchanged.
C7_OnlyCreateInvoice ==
  [][(\E s \in document_sequences, t \in document_sequences' :
        SeqKey(s) = SeqKey(t) /\ s.current_number # t.current_number)
       => \E r \in Slots : Commits(r)]_vars

\* C8: for each key, the correlatives of the committed invoices, in commit
\* order, are strictly increasing.
C8_CommitOrderIncreasing ==
  \A key \in Keys :
     \A i, j \in 1 .. Len(InvoicesOf(key)) :
        i < j => InvoicesOf(key)[i].correlative < InvoicesOf(key)[j].correlative

\* C9: in every quiescent state, for each key, the correlatives of
\* the committed invoices are exactly s+1 .. s+k, s the number the sequence was
\* created with and k the number of committed invoices of the key.
C9_Gapless ==
  Quiescent =>
    \A key \in Keys :
       {InvoicesOf(key)[i].correlative : i \in 1 .. Len(InvoicesOf(key))}
         = InitialNumber(key) + 1 .. InitialNumber(key) + Len(InvoicesOf(key))

\* C10: the next_number values getNextNumber returned and the correlatives of
\* the committed invoices of one key are pairwise distinct.
C10_DistinctAllocations ==
  /\ \A i, j \in 1 .. Len(seq_writes) :
        (/\ i # j /\ seq_writes[i].key = seq_writes[j].key
         /\ seq_writes[i].op = "getNextNumber" /\ seq_writes[j].op = "getNextNumber")
        => seq_writes[i].to # seq_writes[j].to
  /\ \A i \in 1 .. Len(seq_writes), k \in 1 .. Len(invoices) :
        (seq_writes[i].op = "getNextNumber" /\ seq_writes[i].key = InvoiceKey(invoices[k]))
        => seq_writes[i].to # invoices[k].correlative
  /\ \A k, l \in 1 .. Len(invoices) :
        (k # l /\ InvoiceKey(invoices[k]) = InvoiceKey(invoices[l]))
        => invoices[k].correlative # invoices[l].correlative

\* The sequence key a request names.
ReqKey(f) == <<f.req.company_id, f.req.document_type, f.req.series>>

\* The keys of the sequences whose is_active is false.
InactiveKeys == {SeqKey(s) : s \in {t \in document_sequences : ~t.is_active}}

\* C11: a createInvoice or getNextNumber against a sequence whose is_active
\* is false never ends in success, and such a sequence has no durable write of
\* its current_number and no committed invoice.
C11_InactiveRejected ==
  /\ \A key \in InactiveKeys : WritesTo(key) = <<>> /\ InvoicesOf(key) = <<>>
  /\ (ended.op \in {"createInvoice", "getNextNumber"} /\ ReqKey(ended) \in InactiveKeys)
       => ended.res.status \notin {200, 201}

\* C11 case: a createInvoice with valid items against the inactive sequence
\* was answered 400 while a getNextNumber against it is about to read it.
C11_Witness ==
  /\ ended.op = "createInvoice" /\ ReqKey(ended) \in InactiveKeys
  /\ ended.res.status = 400 /\ Len(ended.req.items) > 0
  /\ \E r \in Slots : /\ frames[r].op = "getNextNumber"
                       /\ ReqKey(frames[r]) \in InactiveKeys
                       /\ frames[r].pc = "findSequence"

\* C12: requests of other keys do not change the outcome of a createInvoice:
\* its insert is rejected as a duplicate only when an invoice of its own key
\* is committed, so that two sequences with the same series and different
\* document types each issue their own correlative n.
C12_IndependentKeys ==
  (ended.op = "createInvoice" /\ ended.res.error = "SequelizeUniqueConstraintError")
  => InvoicesOf(ReqKey(ended)) # <<>>

RECURSIVE Zeros(_)
\* n characters "0".
Zeros(n) == IF n <= 0 THEN "" ELSE "0" \o Zeros(n - 1)

\* `str` is prefix, series, "-", the digits of c preceded by as many zeros as
\* c has fewer digits than min_digits, suffix, for the sequence s.
IsFormatted(str, s, c) ==
  str = s.prefix \o s.series \o "-"
          \o Zeros(s.min_digits - Len(ToString(c))) \o ToString(c) \o s.suffix

\* The sequence rows of a key.
SequencesOf(key) == {s \in document_sequences : SeqKey(s) = key}

\* C13: every invoice_number of a committed invoice and every
\* formatted_number getNextNumber returns is prefix + series + "-" + the
\* correlative left-padded with zeros to min_digits (never truncated) +
\* suffix; the first allocation of a sequence stores its initial number plus
\* one; with prefix "", series "F001", min_digits 8, no suffix, correlative 1 is
\* "F001-00000001".
C13_Format ==
  /\ \A i \in 1 .. Len(invoices) :
        \A s \in SequencesOf(InvoiceKey(invoices[i])) :
           /\ IsFormatted(invoices[i].invoice_number, s, invoices[i].correlative)
           /\ (s.prefix = "" /\ s.suffix = "" /\ s.min_digits = 8
                 /\ invoices[i].correlative = 1)
                => invoices[i].invoice_number = "F001-00000001"
  /\ (ended.op = "getNextNumber" /\ ended.res.status = 200) =>
        \A s \in SequencesOf(ReqKey(ended)) :
           /\ IsFormatted(ended.res.formatted_number, s, ended.res.next_number)
           /\ (s.prefix = "" /\ s.suffix = "" /\ s.min_digits = 8
                 /\ ended.res.next_number = 1)
                => ended.res.formatted_number = "F001-00000001"
  /\ \A key \in Keys :
        WritesTo(key) # <<>> => WritesTo(key)[1].to = InitialNumber(key) + 1

\* C13 case: an invoice whose correlative has more digits than min_digits is
\* committed, and getNextNumber has just returned such a number too.
C13_Witness ==
  /\ \E i \in 1 .. Len(invoices) :
        \E s \in SequencesOf(InvoiceKey(invoices[i])) :
           Len(ToString(invoices[i].correlative)) > s.min_digits /\ s.prefix = "E"
  /\ ended.op = "getNextNumber" /\ ended.res.status = 200
  /\ \E s \in SequencesOf(ReqKey(ended)) :
        Len(ToString(ended.res.next_number)) > s.min_digits

\* C14: no reachable state leaves a key stuck: whenever no request is in
\* flight, a createInvoice with valid input for any active sequence, run
\* alone, would pass its insert, so a retried issuance succeeds with a fresh
\* correlative.
C14_NoStuckKey ==
  Quiescent => \A s \in document_sequences : s.is_active =>
       UniqueCompanyNumber(
         [company_id |-> s.company_id,
          invoice_number |-> FormatNumber(s.prefix, s.series, s.current_number + 1,
                                          s.min_digits, s.suffix)],
         SeqToSet(invoices))

\* C15: when a createInvoice handler has run to its end, a failure response
\* (403, 400 or 500) means that no header, line or counter write of the
\* request is durable, and a durable header means that the response was the
\* 201.
C15_ReportedAsStored ==
  (ended.op = "createInvoice" /\ ended.pc = "done") =>
    LET ids == InvoiceIds(ended)
        header == {i \in 1 .. Len(invoices) : invoices[i].id \in ids}
        lines == {l \in invoice_items : l.invoice_id \in ids}
    IN /\ ended.res.status \in {400, 403, 500}
            => (header = {} /\ lines = {} /\ WritesOf(ids) = <<>>)
       /\ header # {} => ended.res.status = 201

\* C16: every committed invoice has total_amount = subtotal + tax_amount, all
\* three as stored in their DECIMAL(12,2) columns.
C16_TotalIsSum ==
  \A i \in 1 .. Len(invoices) :
     invoices[i].total_amount = invoices[i].subtotal + invoices[i].tax_amount

\* The stored lines of the invoice `id`.
LinesOf(id) == {l \in invoice_items : l.invoice_id = id}

RECURSIVE SumRows(_, _)
\* The sum of one column over a set of rows.
SumRows(rows, field) ==
  IF rows = {} THEN 0
  ELSE LET l == CHOOSE x \in rows : TRUE
       IN l[field] + SumRows(rows \ {l}, field)

\* C17: for every committed invoice, the stored subtotal, tax_amount and
\* total_amount of the header are the sums of the stored subtotal, tax_amount
\* and total_amount of its lines.
C17_HeaderIsSumOfLines ==
  \A i \in 1 .. Len(invoices) :
     \A field \in {"subtotal", "tax_amount", "total_amount"} :
        invoices[i][field] = SumRows(LinesOf(invoices[i].id), field)

\* A number of millionths rounded to hundredths as a DECIMAL(12,2) column
\* rounds it: to the nearest, a tie away from zero.
HalfUp2(x) ==
  IF x >= 0 THEN (x + 5000) \div 10000 ELSE 0 - ((5000 - x) \div 10000)

\* A line whose quantity is positive, whose price is not negative and whose
\* rates are within [0, 100].
ValidLine(l) ==
  /\ l.quantity > 0 /\ l.unit_price >= 0
  /\ l.discount_rate >= 0 /\ l.discount_rate <= 100

\* C18: for every stored line with valid input, subtotal is the net base
\* rounded half up to two decimals, tax_amount is the tax of that rounded
\* base rounded half up, and total_amount is the sum of the two; the line
\* 3 x 10.00 at 5% discount and 18% tax is stored as 28.50, 5.13, 33.63.
C18_LineRounding ==
  \A l \in {x \in invoice_items : ValidLine(x)} :
     /\ l.subtotal = HalfUp2(l.quantity * l.unit_price * (100 - l.discount_rate) * 100)
     /\ l.tax_amount = HalfUp2(l.subtotal * 100 * l.tax_rate)
     /\ l.total_amount = l.subtotal + l.tax_amount
     /\ (l.quantity = 3 /\ l.unit_price = 1000 /\ l.discount_rate = 5 /\ l.tax_rate = 18)
          => (l.subtotal = 2850 /\ l.tax_amount = 513 /\ l.total_amount = 3363)

\* C19: the invoice a successful createInvoice reads back by id has subtotal,
\* tax_amount, discount_amount and total_amount equal to the values the
\* handler computed and passed to Invoice.create, and each of its lines has
\* subtotal, tax_amount and total_amount equal to the values of its processed
\* item (the decimal read is the number the handler had).
C19_ReadAfterWrite ==
  (ended.op = "createInvoice" /\ ended.res.status = 201) =>
    /\ \A read \in ended.res.data.invoice :
          \A field \in {"subtotal", "tax_amount", "discount_amount", "total_amount"} :
             ParseFloat2(read[field]) = the(ended.invoice)[field]
    /\ \A l \in ended.res.data.items :
          \A field \in {"subtotal", "tax_amount", "total_amount"} :
             ParseFloat2(l[field]) = ended.processedItems[l.line][field]

\* C20: a createInvoice whose request has a line with quantity <= 0, a
\* negative unit price or a discount rate outside [0, 100] does not end in a
\* 201, and no invoice, line or counter write of such a request is durable;
\* no stored line is invalid.
C20_InvalidLineRejected ==
  /\ \A l \in invoice_items : ValidLine(l)
  /\ (ended.op = "createInvoice" 
      /\ \E n \in 1 .. Len(ended.req.items) : ~ValidLine(ended.req.items[n])) =>
       /\ ended.res.status # 201
       /\ \A i \in 1 .. Len(invoices) : invoices[i].id \notin InvoiceIds(ended)
       /\ WritesOf(InvoiceIds(ended)) = <<>>

\* The rate of the product `id` among `rows`.
RateIn(rows, id) == the(ProductFindByPk(rows, id)).igv_rate

\* The createInvoice of slot r stores, at its commit, every line with the
\* igv_rate its product has in the snapshot the transaction reads from
\* (`norate` where that column is NULL), and with the tax of that rate on the
\* stored base; the snapshot is the table products at the step that reads
\* the sequence.
StoresRate(r, norate) ==
  /\ (/\ frames[r].op = "createInvoice" /\ frames[r].pc = "findSequence"
      /\ frames'[r].pc = "findProduct") => frames'[r].tx.snapshot = products
  /\ Commits(r) =>
       \A l \in invoice_items' \ invoice_items :
          /\ l.tax_rate = IF RateIn(frames[r].tx.snapshot, l.product_id) = Null
                            THEN norate
                            ELSE RateIn(frames[r].tx.snapshot, l.product_id)
          /\ l.tax_amount * 100 = l.subtotal * l.tax_rate

\* C21 as stated: every line is stored with the igv_rate its product had when
\* the issuance read the table, whatever the column holds, and with the tax
\* of that rate.
C21_RateOfProduct ==
  [][\A r \in Slots : StoresRate(r, Null)]_vars

\* C21 amended: every line is stored with the igv_rate its product had when
\* the issuance read the table, for every rate including 0, with 18 when the
\* product has no rate (the column is NULL), and with the tax of the rate
\* stored.
C21_RateSnapshot ==
  [][\A r \in Slots : StoresRate(r, 18)]_vars

\* C21 case: a line was stored with a rate of 0 and no tax, and the product
\* has a rate of 10 now.
C21_Witness ==
  \E l \in invoice_items :
     /\ l.tax_rate = 0 /\ l.tax_amount = 0 /\ l.subtotal = 1000
     /\ RateIn(products, l.product_id) = 10

\* C22 (products): every stored line of every committed invoice names a
\* product of the company of the invoice.
C22_OwnCompanyProducts ==
  \A i \in 1 .. Len(invoices) :
     \A l \in LinesOf(invoices[i].id) :
        ProductFindOne(products, l.product_id, invoices[i].company_id) # {}

\* The user has a membership in the company with role owner, admin,
\* accountant or sales.
MayIssue(user_id, company_id) ==
  \E uc \in user_companies :
     /\ uc.user_id = user_id /\ uc.company_id = company_id
     /\ uc.role \in {"owner", "admin", "accountant", "sales"}

\* C23: every committed invoice was created by a user with such a
\* membership in its company; a createInvoice of another caller never gets
\* past the permission check, where it rolls back for a 403; it ends with the
\* 403 (with a 500 or without response when a database call fails), with no
\* transaction left open by the handler, and no step of it changes a
\* sequence, an invoice or a line.
C23_RoleRequired ==
  [][/\ \A i \in 1 .. Len(invoices') :
          MayIssue(invoices'[i].created_by, invoices'[i].company_id)
     /\ \A r \in Slots :
          (/\ frames'[r].op = "createInvoice"
           /\ ~MayIssue(frames'[r].req.user_id, frames'[r].req.company_id))
            => /\ frames'[r].pc \in {"transaction", "findUserCompany", "rollback", "catch"}
               /\ frames'[r].pc = "rollback" => frames'[r].reply = 403
               /\ frames'[r] # frames[r]
                    => UNCHANGED <<document_sequences, invoices, invoice_items,
                                   seq_writes>>
     /\ (/\ ended'.op = "createInvoice"
         /\ ~MayIssue(ended'.req.user_id, ended'.req.company_id))
          => /\ ended'.pc = "done" =>
                  /\ ended'.res.status \in {403, 500, 0}
                  /\ ended'.res.status = 500 => ended'.res.error = "Error"
                  /\ ended'.tx.state \in {"rollback", "none"}
             /\ UNCHANGED <<document_sequences, invoices, invoice_items, seq_writes>>]_vars

\* C23 case: a request with items by user 3, who has no membership, was
\* answered 403 after an invoice of a member had been committed.
C23_Witness ==
  /\ ended.op = "createInvoice" /\ ended.res.status = 403
  /\ ended.req.user_id = 3 /\ Len(ended.req.items) > 0
  /\ ended.tx.state = "rollback"
  /\ Len(invoices) > 0

\* The body lacks customer_id, document_type, series or issue_date, or its
\* item list is missing or empty.
BodyIncomplete(req) ==
  \/ req.customer_id = 0 \/ req.document_type = "" \/ req.series = ""
  \/ req.issue_date = "" \/ req.items = <<>>

\* C24: a createInvoice with an incomplete body never gets past the
\* validation, where it rolls back for a 400 when the caller may issue; it
\* ends with that 400 (with the 403 of the permission check, with a 500 or
\* without response when a database call fails), with no transaction left
\* open by the handler, and no step of it changes a sequence, an invoice or
\* a line.
C24_IncompleteRejected ==
  [][/\ \A r \in Slots :
          (frames'[r].op = "createInvoice" /\ BodyIncomplete(frames'[r].req))
            => /\ frames'[r].pc \in {"transaction", "findUserCompany", "rollback", "catch"}
               /\ frames'[r].pc = "rollback" =>
                    frames'[r].reply
                      = IF MayIssue(frames'[r].req.user_id, frames'[r].req.company_id)
                          THEN 400 ELSE 403
               /\ frames'[r] # frames[r]
                    => UNCHANGED <<document_sequences, invoices, invoice_items,
                                   seq_writes>>
     /\ (ended'.op = "createInvoice" /\ BodyIncomplete(ended'.req))
          => /\ ended'.pc = "done" =>
                  /\ ended'.res.status
                       \in {IF MayIssue(ended'.req.user_id, ended'.req.company_id)
                              THEN 400 ELSE 403, 500, 0}
                  /\ ended'.res.status = 500 => ended'.res.error = "Error"
                  /\ ended'.tx.state \in {"rollback", "none"}
             /\ UNCHANGED <<document_sequences, invoices, invoice_items, seq_writes>>]_vars

\* C24 case: a request without customer_id was answered 400 while another
\* request is in flight and an invoice is committed.
C24_Witness ==
  /\ ended.op = "createInvoice" /\ ended.res.status = 400
  /\ ended.req.customer_id = 0 /\ Len(ended.req.items) > 0
  /\ ended.tx.state = "rollback"
  /\ Len(invoices) > 0
  /\ \E r \in Slots : frames[r].op = "createInvoice"

\* The user is an owner or admin of the company.
MayCreateSequence(user_id, company_id) ==
  \E uc \in user_companies :
     /\ uc.user_id = user_id /\ uc.company_id = company_id
     /\ uc.role \in {"owner", "admin"}

\* C25: document_sequences never holds two rows with the same (company_id,
\* document_type, series); a createSequence that ends while its key exists is
\* not answered 201, is answered 409 when the caller is an owner or admin
\* (500 when a database call fails), and leaves every row, current_number
\* included, as it was.
C25_OneSequencePerKey ==
  [][/\ \A s, t \in document_sequences' : SeqKey(s) = SeqKey(t) => s = t
     /\ (ended'.op = "createSequence" /\ ReqKey(ended') \in Keys)
          => /\ ended'.res.status # 201
             /\ (ended'.pc = "done"
                   /\ MayCreateSequence(ended'.req.user_id, ended'.req.company_id))
                  => /\ ended'.res.status \in {409, 500}
                     /\ ended'.res.status = 500 => ended'.res.error = "Error"
             /\ document_sequences' = document_sequences]_vars

\* C25 case: a createSequence for the key of a sequence that has already
\* issued a number was answered 409 and the counter is still above the
\* current_number of the body; a second key exists as well.
C25_Witness ==
  /\ ended.op = "createSequence" /\ ended.res.status = 409
  /\ CurrentNumber(document_sequences, ReqKey(ended)) > ended.req.current_number
  /\ Cardinality(Keys) > 2

\* C26: a key is added to document_sequences only by a createSequence of an
\* owner or admin of that company that is answered 201; a createInvoice or
\* getNextNumber never gets past its lookup for a key without a sequence (a
\* createInvoice rolls back for a 400 there), and a createInvoice that ends
\* for such a key does not succeed and leaves sequences, invoices and lines
\* unchanged.
C26_OnlyCreateSequence ==
  [][/\ Keys' # Keys =>
          /\ ended'.op = "createSequence" /\ ended'.res.status = 201
          /\ Keys' = Keys \cup {ReqKey(ended')}
          /\ MayCreateSequence(ended'.req.user_id, ended'.req.company_id)
     /\ \A r \in Slots :
          /\ (/\ frames'[r].op \in {"createInvoice", "getNextNumber"}
              /\ frames'[r].pc \in {"findProduct", "createInvoice", "createItem",
                                   "updateSequence", "commit", "reread", "update"}) => ReqKey(frames'[r]) \in Keys'
          /\ (/\ frames[r].op = "createInvoice" /\ frames[r].pc = "findSequence"
              /\ ReqKey(frames[r]) \notin Keys /\ frames'[r].pc = "rollback")
               => frames'[r].reply = 400
     /\ (ended'.op = "createInvoice" /\ ReqKey(ended') \notin Keys')
          => /\ ended'.res.status # 201
             /\ UNCHANGED <<document_sequences, invoices, invoice_items, seq_writes>>]_vars

\* C26 case: a complete createInvoice of a member for credit_note/F001 was
\* answered 400 while that key has no sequence.
C26_Witness ==
  /\ ended.op = "createInvoice" /\ ended.res.status = 400
  /\ MayIssue(ended.req.user_id, ended.req.company_id)
  /\ ~BodyIncomplete(ended.req)
  /\ ReqKey(ended) \notin Keys

\* C27: the invoices change by a commit of createInvoice appending one
\* invoice with status draft and sunat_status pending, the committed invoices
\* left as they were, or by an update; the status or sunat_status of a
\* committed invoice changes only in a step of sendToSunat.
C27_DraftAtCommit ==
  [][/\ Len(invoices') >= Len(invoices)
     /\ Len(invoices') > Len(invoices) =>
          /\ \E r \in Slots : Commits(r)
          /\ Len(invoices') = Len(invoices) + 1
          /\ invoices'[Len(invoices')].status = "draft"
          /\ invoices'[Len(invoices')].sunat_status = "pending"
          /\ \A i \in 1 .. Len(invoices) : invoices'[i] = invoices[i]
     /\ (\E i \in 1 .. Len(invoices) :
            \/ invoices'[i].status # invoices[i].status
            \/ invoices'[i].sunat_status # invoices[i].sunat_status)
          => \E r \in Slots : frames[r].op = "sendToSunat" /\ frames'[r] # frames[r]]_vars

\* C27 case: a createInvoice was answered 201, the invoice it read back is a
\* draft with sunat_status pending, and invoice 1 is a draft that SUNAT
\* rejected.
C27_Witness ==
  /\ ended.op = "createInvoice" /\ ended.res.status = 201
  /\ \A inv \in ended.res.data.invoice :
        inv.status = "draft" /\ inv.sunat_status = "pending"
  /\ ended.res.data.invoice # {}
  /\ invoices[1].status = "draft" /\ invoices[1].sunat_status = "rejected"

\* C28: no step changes the id, correlative, series, document_type,
\* invoice_number or amounts of a committed invoice, and no step changes or
\* removes a stored line (quantity, unit_price, discount_rate, tax_rate and
\* amounts included).
C28_CommittedIsFrozen ==
  [][/\ Len(invoices') >= Len(invoices)
     /\ \A i \in 1 .. Len(invoices) :
          \A field \in {"id", "company_id", "correlative", "series", "document_type",
                        "invoice_number", "subtotal", "tax_amount", "total_amount"} :
             invoices'[i][field] = invoices[i][field]
     /\ invoice_items \subseteq invoice_items']_vars

\* C28 case: SUNAT has answered for invoice 1, the igv_rate of product 1 is 10
\* now, a further invoice is committed, and the line of invoice 1 still has
\* tax_rate 18 and the tax of 18%.
C28_Witness ==
  /\ invoices[1].xml_content /\ invoices[1].sunat_status # "pending"
  /\ Len(invoices) = 2
  /\ RateIn(products, 1) = 10
  /\ \E l \in invoice_items :
        l.invoice_id = 1 /\ l.product_id = 1 /\ l.tax_rate = 18 /\ l.tax_amount = 180

\* C29: a createInvoice handler that has run to its end has finished its
\* transaction, by commit or by rollback, and has sent a response.
C29_FinalizedAndAnswered ==
  (ended.op = "createInvoice" /\ ended.pc = "done") =>
    /\ ended.tx.state \in {"commit", "rollback"}
    /\ ended.res.status # 0

\* C30: a step of a createInvoice or getNextNumber request leaves every
\* sequence row of another key as it is, adds and removes no sequence, leaves
\* every invoice and line of another company as it is, and adds invoices and
\* lines to its own company only.
C30_OtherRowsUnchanged ==
  [][\A f \in {IF frames[r].pc # "idle" THEN frames[r] ELSE frames'[r]
                 : r \in {q \in Slots : frames'[q] # frames[q]}} :
       f.op \in {"createInvoice", "getNextNumber"} =>
         /\ Keys' = Keys
         /\ \A s \in document_sequences :
               SeqKey(s) # ReqKey(f) => s \in document_sequences'
         /\ Len(invoices') >= Len(invoices)
         /\ \A i \in 1 .. Len(invoices') :
               invoices'[i].company_id # f.req.company_id
                 => (i <= Len(invoices) /\ invoices'[i] = invoices[i])
         /\ invoice_items \subseteq invoice_items'
         /\ \A l \in invoice_items' \ invoice_items :
               \A i \in 1 .. Len(invoices') :
                  invoices'[i].id = l.invoice_id
                    => invoices'[i].company_id = f.req.company_id]_vars

\* C30 case: a getNextNumber of company 1 for F001 was answered with 1 while
\* company 2 has a committed invoice and its counter at 1, and B001 of
\* company 1 is still at 0.
C30_Witness ==
  /\ ended.op = "getNextNumber" /\ ended.res.status = 200
  /\ ReqKey(ended) = <<1, "invoice", "F001">>
  /\ CurrentNumber(document_sequences, <<1, "invoice", "F001">>) = 1
  /\ CurrentNumber(document_sequences, <<2, "invoice", "F001">>) = 1
  /\ CurrentNumber(document_sequences, <<1, "invoice", "B001">>) = 0
  /\ \E i \in 1 .. Len(invoices) : invoices[i].company_id = 2

====
